---- MODULE Spec2Model ----
(***************************************************************************)
(* PM-AI agent of Shazaam0912/APJ2: the command router                     *)
(* (backend/app/routes/agent.py), the plan generators and executor         *)
(* (backend/app/agent/agent_service.py) and the store gateway              *)
(* (backend/app/agent/tools.py).                                           *)
(*                                                                         *)
(* Text is modelled at character level: a Python str is a sequence of      *)
(* one-character strings, so that `in`, split, find, rfind, strip, lower   *)
(* and json.loads are computed as Python computes them.                    *)
(***************************************************************************)
EXTENDS Integers, Sequences, FiniteSets, TLC

(***************************************************************************)
(* Bounds of the model.                                                    *)
(***************************************************************************)
\* Most milestones, tasks and epics of a generated plan.
MaxMilestones == 2
MaxPlanTasks == 2
MaxEpics == 1
\* Most drafts of a generated task list, and sub-task names of a draft.
MaxDrafts == 2
MaxSubTasks == 2
\* Most elements of an array the extraction is applied to.
MaxItems == 2
\* Most done and most open tasks of a project whose health is checked, and
\* most tasks of one assignee.
MaxDone == 29
MaxOpen == 21
MaxAssigned == 7

(***************************************************************************)
(* Python str operations.                                                  *)
(***************************************************************************)
UpperChars ==
    <<"A", "B", "C", "D", "E", "F", "G", "H", "I", "J", "K", "L", "M",
      "N", "O", "P", "Q", "R", "S", "T", "U", "V", "W", "X", "Y", "Z">>
LowerChars ==
    <<"a", "b", "c", "d", "e", "f", "g", "h", "i", "j", "k", "l", "m",
      "n", "o", "p", "q", "r", "s", "t", "u", "v", "w", "x", "y", "z">>

\* str.lower() on one character.
LowerChar(c) ==
    IF \E i \in 1..26 : UpperChars[i] = c
    THEN LowerChars[CHOOSE i \in 1..26 : UpperChars[i] = c]
    ELSE c

\* str.lower()
Lower(s) == [i \in 1..Len(s) |-> LowerChar(s[i])]

\* s[i:j] with 1-based inclusive bounds, empty when j < i.
Slice(s, i, j) == IF j < i THEN <<>> ELSE SubSeq(s, i, j)

\* sub occurs in s at 1-based position i.
OccursAt(s, sub, i) ==
    /\ i + Len(sub) - 1 <= Len(s)
    /\ \A k \in 1..Len(sub) : s[i + k - 1] = sub[k]

\* `sub in s`
Contains(s, sub) == \E i \in 1..(Len(s) - Len(sub) + 1) : OccursAt(s, sub, i)

\* s.find(sub) as a 1-based position, 0 when absent (Python: 0-based, -1).
Find(s, sub) ==
    IF Contains(s, sub)
    THEN CHOOSE i \in 1..(Len(s) - Len(sub) + 1) :
            /\ OccursAt(s, sub, i)
            /\ \A j \in 1..(i - 1) : ~OccursAt(s, sub, j)
    ELSE 0

\* s.rfind(sub) as a 1-based position, 0 when absent.
RFind(s, sub) ==
    IF Contains(s, sub)
    THEN CHOOSE i \in 1..(Len(s) - Len(sub) + 1) :
            /\ OccursAt(s, sub, i)
            /\ \A j \in (i + 1)..(Len(s) - Len(sub) + 1) : ~OccursAt(s, sub, j)
    ELSE 0

\* s.split(sep)[0]
Split0(s, sep) ==
    IF Contains(s, sep) THEN Slice(s, 1, Find(s, sep) - 1) ELSE s

\* The text after the first occurrence of sep (sep occurs in s).
AfterFirst(s, sep) == Slice(s, Find(s, sep) + Len(sep), Len(s))

\* s.split(sep)[1], for s that contains sep.
Split1(s, sep) == Split0(AfterFirst(s, sep), sep)

\* The backtick character (U+0060), which a TLA+ string literal cannot hold.
Tick == "BACKTICK"

Whitespace == {" ", "\n"}

\* s.strip()
Strip(s) ==
    IF \A i \in 1..Len(s) : s[i] \in Whitespace
    THEN <<>>
    ELSE LET first == CHOOSE i \in 1..Len(s) :
                          /\ s[i] \notin Whitespace
                          /\ \A j \in 1..(i - 1) : s[j] \in Whitespace
             last == CHOOSE i \in 1..Len(s) :
                          /\ s[i] \notin Whitespace
                          /\ \A j \in (i + 1)..Len(s) : s[j] \in Whitespace
         IN SubSeq(s, first, last)

\* c * n
Repeat(c, n) == [i \in 1..n |-> c]

(***************************************************************************)
(* JSON values: json.loads and json.dumps.                                 *)
(* A value is a record tagged by t: an object holds a function from keys   *)
(* (character sequences) to values, as a Python dict does.                 *)
(***************************************************************************)
JNull == [t |-> "null"]
JBool(b) == [t |-> "bool", b |-> b]
JNum(n) == [t |-> "num", n |-> n]
JStr(s) == [t |-> "str", s |-> s]
JArr(a) == [t |-> "arr", a |-> a]
JObj(o) == [t |-> "obj", o |-> o]

DigitChars == <<"0", "1", "2", "3", "4", "5", "6", "7", "8", "9">>
IsDigit(c) == \E i \in 1..10 : DigitChars[i] = c
DigitValue(c) == (CHOOSE i \in 1..10 : DigitChars[i] = c) - 1

ParseFail == [ok |-> FALSE]
ParseOk(v, i) == [ok |-> TRUE, v |-> v, i |-> i]

RECURSIVE SkipWs(_, _)
SkipWs(s, i) == IF i <= Len(s) /\ s[i] \in Whitespace THEN SkipWs(s, i + 1) ELSE i

\* The digits of an integer literal starting at i: the position after them.
RECURSIVE DigitsEnd(_, _)
DigitsEnd(s, i) == IF i <= Len(s) /\ IsDigit(s[i]) THEN DigitsEnd(s, i + 1) ELSE i

RECURSIVE DigitsValue(_, _, _)
DigitsValue(s, i, j) ==
    IF j < i THEN 0 ELSE 10 * DigitsValue(s, i, j - 1) + DigitValue(s[j])

\* A string literal whose opening quote is at i. The texts of the model hold
\* no backslash; a control character inside a string is rejected (strict).
ParseString(s, i) ==
    LET rest == Slice(s, i + 1, Len(s))
        close == Find(rest, <<"\"">>)
        body == Slice(rest, 1, close - 1)
    IN IF close = 0 \/ \E k \in 1..Len(body) : body[k] = "\n"
       THEN ParseFail
       ELSE ParseOk(JStr(body), i + close + 1)

\* An integer literal at i; a leading 0 ends the number (JSON has no 01).
ParseNumber(s, i) ==
    IF s[i] = "0"
    THEN ParseOk(JNum(0), i + 1)
    ELSE LET e == DigitsEnd(s, i) IN ParseOk(JNum(DigitsValue(s, i, e - 1)), e)

ParseLiteral(s, i) ==
    IF OccursAt(s, <<"n", "u", "l", "l">>, i) THEN ParseOk(JNull, i + 4)
    ELSE IF OccursAt(s, <<"t", "r", "u", "e">>, i) THEN ParseOk(JBool(TRUE), i + 4)
    ELSE IF OccursAt(s, <<"f", "a", "l", "s", "e">>, i) THEN ParseOk(JBool(FALSE), i + 5)
    ELSE ParseFail

\* dict[key] = value: a later duplicate key replaces the earlier one.
Put(o, key, v) == [k \in (DOMAIN o) \cup {key} |-> IF k = key THEN v ELSE o[k]]

RECURSIVE ParseValue(_, _)
RECURSIVE ParseMembers(_, _, _)
RECURSIVE ParseElements(_, _, _)

\* The members of an object after "{" or ",": i is at the next key.
ParseMembers(s, i0, o) ==
    LET i == SkipWs(s, i0)
    IN IF i > Len(s) \/ s[i] # "\"" THEN ParseFail
       ELSE LET key == ParseString(s, i)
            IN IF ~key.ok THEN ParseFail
               ELSE LET c == SkipWs(s, key.i)
                    IN IF c > Len(s) \/ s[c] # ":" THEN ParseFail
                       ELSE LET val == ParseValue(s, c + 1)
                            IN IF ~val.ok THEN ParseFail
                               ELSE LET e == SkipWs(s, val.i)
                                        o2 == Put(o, key.v.s, val.v)
                                    IN IF e > Len(s) THEN ParseFail
                                       ELSE IF s[e] = "}" THEN ParseOk(JObj(o2), e + 1)
                                       ELSE IF s[e] = "," THEN ParseMembers(s, e + 1, o2)
                                       ELSE ParseFail

\* The elements of an array after "[" or ",": i is at the next value.
ParseElements(s, i0, a) ==
    LET val == ParseValue(s, i0)
    IN IF ~val.ok THEN ParseFail
       ELSE LET e == SkipWs(s, val.i)
                a2 == Append(a, val.v)
            IN IF e > Len(s) THEN ParseFail
               ELSE IF s[e] = "]" THEN ParseOk(JArr(a2), e + 1)
               ELSE IF s[e] = "," THEN ParseElements(s, e + 1, a2)
               ELSE ParseFail

ParseValue(s, i0) ==
    LET i == SkipWs(s, i0)
    IN IF i > Len(s) THEN ParseFail
       ELSE IF s[i] = "{"
            THEN LET j == SkipWs(s, i + 1)
                 IN IF j <= Len(s) /\ s[j] = "}"
                    THEN ParseOk(JObj(<<>>), j + 1)
                    ELSE ParseMembers(s, i + 1, <<>>)
       ELSE IF s[i] = "["
            THEN LET j == SkipWs(s, i + 1)
                 IN IF j <= Len(s) /\ s[j] = "]"
                    THEN ParseOk(JArr(<<>>), j + 1)
                    ELSE ParseElements(s, i + 1, <<>>)
       ELSE IF s[i] = "\"" THEN ParseString(s, i)
       ELSE IF IsDigit(s[i]) THEN ParseNumber(s, i)
       ELSE ParseLiteral(s, i)

JsonError == [t |-> "error"]

\* json.loads(s): the value, or JsonError for json.JSONDecodeError (also
\* when text follows the value: "Extra data").
JsonLoads(s) ==
    LET r == ParseValue(s, 1)
    IN IF r.ok /\ SkipWs(s, r.i) > Len(s) THEN r.v ELSE JsonError

\* json.dumps(v) with the default separators (", " and ": "). The keys of an
\* object are written in one fixed order; the strings of the model need no
\* escaping (no quote, backslash or control character).
RECURSIVE Dumps(_)
RECURSIVE DumpsElements(_, _)
RECURSIVE DumpsMembers(_, _)
DumpsElements(a, i) ==
    IF i > Len(a) THEN <<>>
    ELSE (IF i > 1 THEN <<",", " ">> ELSE <<>>) \o Dumps(a[i]) \o DumpsElements(a, i + 1)

DumpsMembers(o, keys) ==
    IF keys = {} THEN <<>>
    ELSE LET k == CHOOSE x \in keys : TRUE
         IN (IF keys # DOMAIN o THEN <<",", " ">> ELSE <<>>)
            \o <<"\"">> \o k \o <<"\"", ":", " ">> \o Dumps(o[k])
            \o DumpsMembers(o, keys \ {k})

Dumps(v) ==
    CASE v.t = "null" -> <<"n", "u", "l", "l">>
      [] v.t = "bool" -> IF v.b THEN <<"t", "r", "u", "e">> ELSE <<"f", "a", "l", "s", "e">>
      [] v.t = "num" -> <<DigitChars[v.n + 1]>>
      [] v.t = "str" -> <<"\"">> \o v.s \o <<"\"">>
      [] v.t = "arr" -> <<"[">> \o DumpsElements(v.a, 1) \o <<"]">>
      [] v.t = "obj" -> <<"{">> \o DumpsMembers(v.o, DOMAIN v.o) \o <<"}">>

(***************************************************************************)
(* The extraction step of the plan generators.                             *)
(***************************************************************************)
Fence == <<Tick, Tick, Tick>>
FenceJson == <<Tick, Tick, Tick, "j", "s", "o", "n">>

\* The fence stripping every generator performs on the backend text:
\*   if "```json" in content: content.split("```json")[1].split("```")[0].strip()
\*   elif "```" in content:   content.split("```")[1].split("```")[0].strip()
StripFences(content) ==
    IF Contains(content, FenceJson)
    THEN Strip(Split0(Split1(content, FenceJson), Fence))
    ELSE IF Contains(content, Fence)
    THEN Strip(Split0(Split1(content, Fence), Fence))
    ELSE content

\* generate_project_plan only: slice from the first "{" to the last "}".
\*   start = content.find("{"); end = content.rfind("}")
\*   if start != -1 and end != -1: content = content[start:end+1]
BraceSlice(content) ==
    LET start == Find(content, <<"{">>)
        end == RFind(content, <<"}">>)
    IN IF start # 0 /\ end # 0 THEN Slice(content, start, end) ELSE content

\* The structured value generate_project_plan recovers from the backend
\* text, JsonError when json.loads raises.
ExtractPlan(text) == JsonLoads(BraceSlice(StripFences(text)))

\* The structured value breakdown_task, generate_estimates,
\* generate_health_summary, prioritize_backlog and modify_task recover: these
\* strip fences and parse, without the brace slice.
ExtractBreakdown(text) == JsonLoads(StripFences(text))
ExtractEstimates(text) == JsonLoads(StripFences(text))
ExtractHealthSummary(text) == JsonLoads(StripFences(text))
ExtractPrioritization(text) == JsonLoads(StripFences(text))
ExtractModification(text) == JsonLoads(StripFences(text))

\* The length below which generate_task_list turns an unparsed response into
\* a clarification question.
QuestionLimit == 500

GenFailure == [kind |-> "failure"]
GenQuestion(q) == [kind |-> "question", question |-> q]
GenValue(v) == [kind |-> "value", value |-> v]

\* generate_task_list after the backend answered with text: the parsed task
\* list, {"question": content} or ValueError. content is the text after the
\* fence stripping: the length test and the question both use it.
TaskListFromText(text) ==
    LET content == StripFences(text)
        task_list == JsonLoads(content)
    IN IF task_list = JsonError
       THEN IF Len(content) < QuestionLimit
            THEN GenQuestion(content)
            ELSE GenFailure
       ELSE IF task_list.t # "obj" /\ Len(content) < QuestionLimit
            THEN GenQuestion(content)
            ELSE GenValue(task_list)

(***************************************************************************)
(* The command router: execute_agent_command's keyword groups, in the      *)
(* order of its if/elif chain.                                             *)
(***************************************************************************)
\* routes/agent.py:62: "create project", "new project", "generate plan"
ProjectCreationKeywords ==
    << <<"c", "r", "e", "a", "t", "e", " ", "p", "r", "o", "j", "e", "c", "t">>,
       <<"n", "e", "w", " ", "p", "r", "o", "j", "e", "c", "t">>,
       <<"g", "e", "n", "e", "r", "a", "t", "e", " ", "p", "l", "a", "n">> >>

\* routes/agent.py:91: "create tasks", "generate tasks", "to do list", "todo list", "tasks for"
BulkTaskKeywords ==
    << <<"c", "r", "e", "a", "t", "e", " ", "t", "a", "s", "k", "s">>,
       <<"g", "e", "n", "e", "r", "a", "t", "e", " ", "t", "a", "s", "k", "s">>,
       <<"t", "o", " ", "d", "o", " ", "l", "i", "s", "t">>,
       <<"t", "o", "d", "o", " ", "l", "i", "s", "t">>,
       <<"t", "a", "s", "k", "s", " ", "f", "o", "r">> >>

\* routes/agent.py:183: "update", "change", "move", "delete", "remove", "reassign"
ModificationKeywords ==
    << <<"u", "p", "d", "a", "t", "e">>,
       <<"c", "h", "a", "n", "g", "e">>,
       <<"m", "o", "v", "e">>,
       <<"d", "e", "l", "e", "t", "e">>,
       <<"r", "e", "m", "o", "v", "e">>,
       <<"r", "e", "a", "s", "s", "i", "g", "n">> >>

\* routes/agent.py:208: "health", "status", "how is the project", "progress", "burnout"
HealthKeywords ==
    << <<"h", "e", "a", "l", "t", "h">>,
       <<"s", "t", "a", "t", "u", "s">>,
       <<"h", "o", "w", " ", "i", "s", " ", "t", "h", "e", " ", "p", "r", "o", "j", "e", "c", "t">>,
       <<"p", "r", "o", "g", "r", "e", "s", "s">>,
       <<"b", "u", "r", "n", "o", "u", "t">> >>

\* routes/agent.py:238: "add task", "create task", "new task", "task for", "create a task", "add a task"
SingleTaskKeywords ==
    << <<"a", "d", "d", " ", "t", "a", "s", "k">>,
       <<"c", "r", "e", "a", "t", "e", " ", "t", "a", "s", "k">>,
       <<"n", "e", "w", " ", "t", "a", "s", "k">>,
       <<"t", "a", "s", "k", " ", "f", "o", "r">>,
       <<"c", "r", "e", "a", "t", "e", " ", "a", " ", "t", "a", "s", "k">>,
       <<"a", "d", "d", " ", "a", " ", "t", "a", "s", "k">> >>

\* routes/agent.py:299: "break down", "breakdown", "split", "subtasks for"
BreakdownKeywords ==
    << <<"b", "r", "e", "a", "k", " ", "d", "o", "w", "n">>,
       <<"b", "r", "e", "a", "k", "d", "o", "w", "n">>,
       <<"s", "p", "l", "i", "t">>,
       <<"s", "u", "b", "t", "a", "s", "k", "s", " ", "f", "o", "r">> >>

\* routes/agent.py:314: "estimate", "how long", "time needed", "cost"
EstimationKeywords ==
    << <<"e", "s", "t", "i", "m", "a", "t", "e">>,
       <<"h", "o", "w", " ", "l", "o", "n", "g">>,
       <<"t", "i", "m", "e", " ", "n", "e", "e", "d", "e", "d">>,
       <<"c", "o", "s", "t">> >>

\* routes/agent.py:338: "prioritize", "priority", "order backlog", "rank"
PrioritizationKeywords ==
    << <<"p", "r", "i", "o", "r", "i", "t", "i", "z", "e">>,
       <<"p", "r", "i", "o", "r", "i", "t", "y">>,
       <<"o", "r", "d", "e", "r", " ", "b", "a", "c", "k", "l", "o", "g">>,
       <<"r", "a", "n", "k">> >>

\* routes/agent.py:359: "health", "status", "summary", "how is", "progress"
HealthSummaryKeywords ==
    << <<"h", "e", "a", "l", "t", "h">>,
       <<"s", "t", "a", "t", "u", "s">>,
       <<"s", "u", "m", "m", "a", "r", "y">>,
       <<"h", "o", "w", " ", "i", "s">>,
       <<"p", "r", "o", "g", "r", "e", "s", "s">> >>

\* any(kw in prompt for kw in keywords)
AnyKeyword(keywords, prompt) ==
    \E i \in 1..Len(keywords) : Contains(prompt, keywords[i])

\* The chain with the health group tested before the modification group.
SelectBlockHealthFirst(raw) ==
    LET prompt == Lower(raw)
    IN IF AnyKeyword(ProjectCreationKeywords, prompt) THEN "create_project"
       ELSE IF AnyKeyword(BulkTaskKeywords, prompt) THEN "create_tasks"
       ELSE IF AnyKeyword(HealthKeywords, prompt) THEN "project_health"
       ELSE IF AnyKeyword(ModificationKeywords, prompt) THEN "modify_task"
       ELSE IF AnyKeyword(SingleTaskKeywords, prompt) THEN "create_task"
       ELSE IF AnyKeyword(BreakdownKeywords, prompt) THEN "breakdown_task"
       ELSE IF AnyKeyword(EstimationKeywords, prompt) THEN "generate_estimates"
       ELSE IF AnyKeyword(PrioritizationKeywords, prompt) THEN "prioritize_backlog"
       ELSE IF AnyKeyword(HealthSummaryKeywords, prompt) THEN "health_summary"
       ELSE "generate_plan"

\* The block of the if/elif chain that execute_agent_command enters, named
\* by the capability it serves, for prompt = request.prompt.lower().
SelectBlock(raw) ==
    LET prompt == Lower(raw)
    IN IF AnyKeyword(ProjectCreationKeywords, prompt) THEN "create_project"
       ELSE IF AnyKeyword(BulkTaskKeywords, prompt) THEN "create_tasks"
       ELSE IF AnyKeyword(ModificationKeywords, prompt) THEN "modify_task"
       ELSE IF AnyKeyword(HealthKeywords, prompt) THEN "project_health"
       ELSE IF AnyKeyword(SingleTaskKeywords, prompt) THEN "create_task"
       ELSE IF AnyKeyword(BreakdownKeywords, prompt) THEN "breakdown_task"
       ELSE IF AnyKeyword(EstimationKeywords, prompt) THEN "generate_estimates"
       ELSE IF AnyKeyword(PrioritizationKeywords, prompt) THEN "prioritize_backlog"
       ELSE IF AnyKeyword(HealthSummaryKeywords, prompt) THEN "health_summary"
       ELSE "generate_plan"

(***************************************************************************)
(* Python values and string literals of the source.                        *)
(***************************************************************************)
\* bool(v) of a JSON-born value.
Truthy(v) ==
    CASE v.t = "null" -> FALSE
      [] v.t = "bool" -> v.b
      [] v.t = "num" -> v.n # 0
      [] v.t = "str" -> v.s # <<>>
      [] v.t = "arr" -> v.a # <<>>
      [] v.t = "obj" -> DOMAIN v.o # {}

\* d.get(key, default) for a dict d.
Get(d, key, default) == IF key \in DOMAIN d.o THEN d.o[key] ELSE default

\* a or b
Or(a, b) == IF Truthy(a) THEN a ELSE b

\* Only a dict has .get: on any other value the call raises AttributeError.
IsDict(v) == v.t = "obj"

\* The values a for loop can iterate; on a number, a bool or None it raises
\* TypeError.
Iterable(v) == v.t \in {"arr", "str", "obj"}

\* The elements of a finite set in one fixed order.
SetToSeq(S) ==
    CHOOSE f \in [1..Cardinality(S) -> S] : \A i, j \in 1..Cardinality(S) : i # j => f[i] # f[j]

\* list(v): the elements a for loop visits.
Items(v) ==
    CASE v.t = "arr" -> v.a
      [] v.t = "str" -> [i \in 1..Len(v.s) |-> JStr(<<v.s[i]>>)]
      [] v.t = "obj" -> LET keys == SetToSeq(DOMAIN v.o)
                        IN [i \in 1..Len(keys) |-> JStr(keys[i])]

\* str.upper() on one character, and str.upper().
UpperChar(c) ==
    IF \E i \in 1..26 : LowerChars[i] = c
    THEN UpperChars[CHOOSE i \in 1..26 : LowerChars[i] = c]
    ELSE c
Upper(s) == [i \in 1..Len(s) |-> UpperChar(s[i])]

\* str(n) for a natural number n.
RECURSIVE NatChars(_)
NatChars(n) ==
    IF n < 10 THEN <<DigitChars[n + 1]>>
    ELSE NatChars(n \div 10) \o <<DigitChars[(n % 10) + 1]>>

S_todo == <<"T", "o", " ", "D", "o">>
S_done == <<"D", "o", "n", "e">>
S_inprogress == <<"I", "n", " ", "P", "r", "o", "g", "r", "e", "s", "s">>
S_medium == <<"m", "e", "d", "i", "u", "m">>
S_ai_generated == <<"a", "i", "-", "g", "e", "n", "e", "r", "a", "t", "e", "d">>
S_subtask == <<"s", "u", "b", "t", "a", "s", "k">>
S_planned == <<"p", "l", "a", "n", "n", "e", "d">>
S_active == <<"a", "c", "t", "i", "v", "e">>
S_PROJ == <<"P", "R", "O", "J">>
K_project_name == <<"p", "r", "o", "j", "e", "c", "t", "_", "n", "a", "m", "e">>
K_overview == <<"o", "v", "e", "r", "v", "i", "e", "w">>
K_milestones == <<"m", "i", "l", "e", "s", "t", "o", "n", "e", "s">>
K_tasks == <<"t", "a", "s", "k", "s">>
K_epics == <<"e", "p", "i", "c", "s">>
K_name == <<"n", "a", "m", "e">>
K_description == <<"d", "e", "s", "c", "r", "i", "p", "t", "i", "o", "n">>
K_priority == <<"p", "r", "i", "o", "r", "i", "t", "y">>
K_estimated_hours ==
    <<"e", "s", "t", "i", "m", "a", "t", "e", "d", "_", "h", "o", "u", "r", "s">>
K_action == <<"a", "c", "t", "i", "o", "n">>
K_target_task_name ==
    <<"t", "a", "r", "g", "e", "t", "_", "t", "a", "s", "k", "_", "n", "a", "m", "e">>
K_updates == <<"u", "p", "d", "a", "t", "e", "s">>
K_question == <<"q", "u", "e", "s", "t", "i", "o", "n">>
K_status == <<"s", "t", "a", "t", "u", "s">>
K_assignee == <<"a", "s", "s", "i", "g", "n", "e", "e">>
K_sub_tasks == <<"s", "u", "b", "_", "t", "a", "s", "k", "s">>
K_assignment_reasoning ==
    <<"a", "s", "s", "i", "g", "n", "m", "e", "n", "t", "_", "r", "e", "a", "s", "o", "n", "i",
      "n", "g">>
K_id == <<"i", "d">>
K_project_id == <<"p", "r", "o", "j", "e", "c", "t", "_", "i", "d">>
K_content == <<"c", "o", "n", "t", "e", "n", "t">>
S_update == <<"u", "p", "d", "a", "t", "e">>
S_delete == <<"d", "e", "l", "e", "t", "e">>

(***************************************************************************)
(* The state: one command handled by execute_agent_command, the store      *)
(* behind AgentTools and the generative backend.                           *)
(***************************************************************************)
VARIABLES
    enabled,        \* is_agent_enabled(): the backend key is configured
    request,        \* the UnifiedAgentRequest: prompt and context
    pc,             \* the await at which the handler stands
    branch,         \* the block of the if/elif chain the handler entered
    projects,       \* table projects, rows in insertion order
    sprints,        \* table sprints
    tasks,          \* table tasks
    nextId,         \* source of fresh primary keys (uuid.uuid4)
    calls,          \* backend calls, store reads and store writes issued
    reply,          \* the backend's answer to the last generator call
    plan,           \* the parsed plan (and modify_task's parsed intent)
    execution,      \* execute_plan's project, created_sprints, created_tasks
    task_list,      \* generate_task_list's result
    created_tasks,  \* the handler's created_tasks list
    task,           \* the handler's task: the dict of the draft's created task
    cursor,         \* positions of the for loops in progress
    fetched,        \* modify_task's tasks, as the store returned them
    target_task,    \* modify_task's target_task
    result,         \* modify_task's, the analyzer's or a generator's result
    pending,        \* the response under construction while it is summarized
    response,       \* what the handler returned or raised
    sample,         \* a backend text or JSON value handed to the extractors
    extracted       \* what each generator's extraction makes of sample

storeVars == <<projects, sprints, tasks, nextId>>
localVars == <<plan, execution, task_list, created_tasks, task, cursor, fetched, target_task, result, pending>>
extractVars == <<sample, extracted>>
vars == <<enabled, request, pc, branch, projects, sprints, tasks, nextId, calls, reply,
          plan, execution, task_list, created_tasks, task, cursor, fetched,
          target_task, result, pending, response, sample, extracted>>

None == JNull
Unset == [kind |-> "none"]

\* fastapi.HTTPException(status_code)
HttpError(status) == [kind |-> "error", status |-> status]

\* UnifiedAgentResponse(success, action, result, message, execution_details)
UnifiedAgentResponse(success, action, res, message, details) ==
    [kind |-> "response", success |-> success, action |-> action, result |-> res,
     message |-> message, execution_details |-> details]

\* The handler returns or raises: nothing of it runs afterwards.
Finish(r) == pc' = "done" /\ response' = r

\* `except Exception as e: raise HTTPException(status_code=500, ...)`
Raise500 == Finish(HttpError(500))

\* A backend call that is tried a second time when it fails.
BackendCalledTwice == calls' = [calls EXCEPT !.backend = @ + 2]

\* One client.chat.completions.create call.
BackendCalled == calls' = [calls EXCEPT !.backend = @ + 1]

\* A read of the store issued through a call that also writes.
StoreReadAsWrite == calls' = [calls EXCEPT !.reads = @ + 1, !.writes = @ + 1]

\* Store calls: a read, a write, and either of them raising.
StoreRead == calls' = [calls EXCEPT !.reads = @ + 1]
StoreWritten == calls' = [calls EXCEPT !.writes = @ + 1]
StoreFailed == calls' = [calls EXCEPT !.writes = @ + 1, !.failed = @ + 1]
StoreReadFailed == calls' = [calls EXCEPT !.reads = @ + 1, !.failed = @ + 1]

\* The check written as `context.get("project_id") is None`.
ProjectIdIsNone(req) == req.project_id = None

\* context.get("project_id") is absent, None or empty.
NoProjectId(req) == ~Truthy(req.project_id)

(***************************************************************************)
(* execute_agent_command up to its first await: the if/elif chain and the  *)
(* checks of the block entered.                                            *)
(***************************************************************************)
Route ==
    /\ pc = "start"
    /\ LET block == SelectBlock(request.prompt)
       IN /\ branch' = block
          /\ CASE block = "create_project" ->
                    pc' = "generate_project_plan" /\ UNCHANGED response
               [] block = "create_tasks" ->
                    /\ pc' = IF NoProjectId(request) THEN "generate_project_plan"
                                                     ELSE "get_project_by_id"
                    /\ UNCHANGED response
               [] block = "modify_task" ->
                    IF NoProjectId(request)
                    THEN Finish(HttpError(400))
                    ELSE pc' = "modify_task" /\ UNCHANGED response
               [] block = "project_health" ->
                    IF NoProjectId(request)
                    THEN Finish(HttpError(400))
                    ELSE pc' = "get_project_health" /\ UNCHANGED response
               [] block = "create_task" ->
                    IF NoProjectId(request)
                    THEN Finish(HttpError(400))
                    ELSE pc' = "get_project_by_id" /\ UNCHANGED response
               [] block = "breakdown_task" ->
                    pc' = "breakdown_task" /\ UNCHANGED response
               [] block = "generate_estimates" ->
                    IF ~request.has_tasks
                    THEN Finish(UnifiedAgentResponse(FALSE, "estimate", <<>>,
                                    [kind |-> "fixed", text |-> "provide tasks"], None))
                    ELSE pc' = "generate_estimates" /\ UNCHANGED response
               [] block = "prioritize_backlog" ->
                    IF NoProjectId(request)
                    THEN Finish(HttpError(400))
                    ELSE pc' = "prioritize_backlog" /\ UNCHANGED response
               [] block = "health_summary" ->
                    IF NoProjectId(request)
                    THEN Finish(HttpError(400))
                    ELSE Finish(UnifiedAgentResponse(TRUE, "health_summary",
                                    [health |-> "Feature coming soon"],
                                    [kind |-> "fixed", text |-> "Project health summary"], None))
               [] block = "generate_plan" ->
                    pc' = "generate_project_plan" /\ UNCHANGED response
    /\ UNCHANGED <<enabled, request, storeVars, calls, reply, localVars, extractVars>>

(***************************************************************************)
(* The store before the command: two projects and the tasks of both.       *)
(***************************************************************************)
S_P1 == <<"P", "1">>
S_P2 == <<"P", "2">>
S_app == <<"a", "p", "p">>
S_APP2345 == <<"A", "P", "P", "2", "3", "4", "5">>
S_web == <<"w", "e", "b">>
S_WEB1 == <<"W", "E", "B", "1">>
S_t0 == <<"t", "0">>
S_t1 == <<"t", "1">>
S_t2 == <<"t", "2">>
S_t9 == <<"t", "9">>
S_implement_login ==
    <<"I", "m", "p", "l", "e", "m", "e", "n", "t", " ", "l", "o", "g", "i", "n">>
S_fix_logout_bug == <<"F", "i", "x", " ", "l", "o", "g", "o", "u", "t", " ", "b", "u", "g">>
S_login_audit == <<"L", "o", "g", "i", "n", " ", "a", "u", "d", "i", "t">>
S_setup_page == <<"S", "e", "t", "u", "p", " ", "p", "a", "g", "e">>
S_login_form == <<"L", "O", "G", "I", "N", " ", "f", "o", "r", "m">>
S_hello == <<"h", "e", "l", "l", "o">>

ProjectRow(id, name, key) ==
    [id |-> JStr(id), name |-> JStr(name), key |-> JStr(key), description |-> None,
     status |-> JStr(S_active), category |-> None]

TaskRow(id, content, description, project_id) ==
    [id |-> JStr(id), content |-> JStr(content), description |-> description,
     status |-> JStr(S_todo), priority |-> JStr(S_medium), assignee |-> None,
     estimated_hours |-> None, tags |-> JArr(<<>>), project_id |-> JStr(project_id),
     parent_id |-> None]

InitialProjects == <<ProjectRow(S_P1, S_app, S_APP2345), ProjectRow(S_P2, S_web, S_WEB1)>>

OtherProjectTask == TaskRow(S_t0, S_login_audit, None, S_P2)

InitialTaskTables ==
    { <<OtherProjectTask,
        TaskRow(S_t1, S_implement_login, None, S_P1),
        TaskRow(S_t2, S_fix_logout_bug, None, S_P1)>>,
      <<OtherProjectTask,
        TaskRow(S_t1, S_setup_page, JStr(S_login_form), S_P1),
        TaskRow(S_t2, S_implement_login, None, S_P1)>>,
      <<OtherProjectTask>> }

NoCalls == [backend |-> 0, reads |-> 0, writes |-> 0, failed |-> 0]

\* The handler has not started; nothing is extracted.
InitHandler ==
    /\ pc = "start"
    /\ branch = "none"
    /\ projects = InitialProjects
    /\ sprints = <<>>
    /\ nextId = 1
    /\ calls = NoCalls
    /\ reply = Unset
    /\ plan = None
    /\ execution = Unset
    /\ task_list = Unset
    /\ created_tasks = <<>>
    /\ task = None
    /\ cursor = [i |-> 0, j |-> 0]
    /\ fetched = <<>>
    /\ target_task = None
    /\ result = Unset
    /\ pending = Unset
    /\ response = Unset
    /\ sample = Unset
    /\ extracted = Unset

(***************************************************************************)
(* The router alone, on prompts that hold the phrases of up to two         *)
(* keyword groups.                                                         *)
(***************************************************************************)
RuleGroups ==
    <<ProjectCreationKeywords, BulkTaskKeywords, ModificationKeywords, HealthKeywords,
      SingleTaskKeywords, BreakdownKeywords, EstimationKeywords, PrioritizationKeywords,
      HealthSummaryKeywords>>

\* Every keyword phrase of the router, and a phrase that is no keyword.
AllPhrases ==
    UNION {{RuleGroups[g][i] : i \in 1..Len(RuleGroups[g])} : g \in 1..Len(RuleGroups)}
        \cup {S_hello}

\* One phrase in capitals, or two phrases separated by a space.
RouterPrompts ==
    {Upper(a) : a \in AllPhrases} \cup {a \o <<" ">> \o b : a, b \in AllPhrases}

RouterRequests ==
    [prompt : RouterPrompts, project_id : {None, JStr(S_P1)}, has_tasks : BOOLEAN]

InitRouter ==
    /\ InitHandler
    /\ enabled = TRUE
    /\ tasks = <<OtherProjectTask>>
    /\ request \in RouterRequests

SpecRouter == InitRouter /\ [][Route]_vars

(***************************************************************************)
(* AgentTools: the store gateway. Every call is one transaction; a call    *)
(* may fail for reasons of the store's own (connection, timeout), and it   *)
(* fails when a row breaks a constraint of the schema.                     *)
(***************************************************************************)
\* uuid.uuid4() for the primary key of the n-th row the command inserts.
Uuid(n) == <<"u">> \o NatChars(n)

\* A column of type String: None or a str.
NullableText(v) == v.t \in {"null", "str"}

\* s[:n]
Take(s, n) == Slice(s, 1, IF Len(s) < n THEN Len(s) ELSE n)

\* create_project: project_data.get("name", "PROJ")[:4] raises unless the
\* name is a str (the callers always pass the key "name", never "key").
CreateProjectRaises(project_data) == project_data.name.t # "str"

\* unique_key = f"{base_key}{int(time.time()) % 10000}"
ProjectKey(project_data, now) ==
    Upper(Take(project_data.name.s, 4)) \o NatChars(now % 10000)

\* The row create_project adds.
NewProject(id, project_data, now) ==
    [id |-> JStr(id), name |-> project_data.name,
     key |-> JStr(ProjectKey(project_data, now)),
     description |-> project_data.description, status |-> JStr(S_active),
     category |-> project_data.category]

\* Project.key is unique, Project.description is a nullable String.
ProjectAccepted(row, table) ==
    /\ NullableText(row.description)
    /\ \A i \in 1..Len(table) : table[i].key # row.key

\* The dict create_project returns.
ProjectDict(row) ==
    [id |-> row.id, name |-> row.name, key |-> row.key, description |-> row.description,
     status |-> row.status, category |-> row.category]

\* The row create_task adds: content is name or content, the status is
\* "To Do"; task_data's parent_id is not passed on to Task(...).
NewTask(id, task_data, project_id) ==
    [id |-> JStr(id), content |-> Or(task_data.name, task_data.content),
     description |-> task_data.description, status |-> JStr(S_todo),
     priority |-> task_data.priority, assignee |-> task_data.assignee,
     estimated_hours |-> task_data.estimated_hours, tags |-> task_data.tags,
     project_id |-> project_id, parent_id |-> None]

\* Task.content is not nullable, Task.project_id references projects.id.
TaskAccepted(row, projectTable) ==
    /\ row.content.t = "str"
    /\ NullableText(row.description)
    /\ NullableText(row.priority)
    /\ NullableText(row.assignee)
    /\ row.estimated_hours.t \in {"null", "num"}
    /\ \E i \in 1..Len(projectTable) : projectTable[i].id = row.project_id

\* The dict create_task returns.
TaskDict(row) ==
    [id |-> row.id, content |-> row.content, description |-> row.description,
     status |-> row.status, priority |-> row.priority, assignee |-> row.assignee,
     project_id |-> row.project_id]

\* The row create_sprint adds: goal is description or goal.
NewSprint(id, sprint_data, project_id) ==
    [id |-> JStr(id), name |-> sprint_data.name,
     goal |-> Or(sprint_data.description, sprint_data.goal),
     status |-> JStr(S_planned), project_id |-> project_id]

\* Sprint.name is not nullable, Sprint.project_id references projects.id.
SprintAccepted(row, projectTable) ==
    /\ row.name.t = "str"
    /\ NullableText(row.goal)
    /\ \E i \in 1..Len(projectTable) : projectTable[i].id = row.project_id

\* The dict create_sprint returns.
SprintDict(row) ==
    [id |-> row.id, name |-> row.name, goal |-> row.goal, status |-> row.status,
     project_id |-> row.project_id]

\* int(time.time()) when create_project runs.
Clock == {12345, 22346}

(***************************************************************************)
(* The generative backend: client.chat.completions.create either raises    *)
(* or answers with a text.                                                 *)
(***************************************************************************)
BackendFailure == [kind |-> "failure"]
BackendText(text) == [kind |-> "text", text |-> text]

(***************************************************************************)
(* generate_project_plan, and execute_plan one store call at a time.       *)
(***************************************************************************)
\* plan.get("milestones"), and what `if ...: for milestone in ...` visits.
Milestones(p) == Get(p, K_milestones, None)
MilestonesRaise(p) == Truthy(Milestones(p)) /\ ~Iterable(Milestones(p))
MilestoneItems(p) ==
    IF Truthy(Milestones(p)) /\ Iterable(Milestones(p)) THEN Items(Milestones(p)) ELSE <<>>

\* The tasks and the epics both turned into tasks.
TasksAndEpics(p) ==
    JArr(Items(Get(p, K_tasks, JArr(<<>>))) \o Items(Get(p, K_epics, JArr(<<>>))))

\* tasks_to_create: plan.get("tasks", []), or the epics when that is empty.
TasksToCreate(p) ==
    LET tasks_to_create == Get(p, K_tasks, JArr(<<>>))
    IN IF ~Truthy(tasks_to_create) /\ Truthy(Get(p, K_epics, None))
       THEN Get(p, K_epics, JArr(<<>>))
       ELSE tasks_to_create
TasksRaise(p) == ~Iterable(TasksToCreate(p))
TaskItems(p) == IF Iterable(TasksToCreate(p)) THEN Items(TasksToCreate(p)) ELSE <<>>

\* Where execute_plan goes after its store call: to the next create_sprint,
\* the next create_task, an exception or its return statement.
AfterTask(p, i) ==
    IF TasksRaise(p) THEN [to |-> "raise", i |-> i]
    ELSE IF i > Len(TaskItems(p)) THEN [to |-> "return", i |-> i]
    ELSE IF ~IsDict(TaskItems(p)[i]) THEN [to |-> "raise", i |-> i]
    ELSE [to |-> "create_plan_task", i |-> i]

AfterSprint(p, i) ==
    IF MilestonesRaise(p) THEN [to |-> "raise", i |-> i]
    ELSE IF i > Len(MilestoneItems(p)) THEN AfterTask(p, 1)
    ELSE IF ~IsDict(MilestoneItems(p)[i]) THEN [to |-> "raise", i |-> i]
    ELSE [to |-> "create_sprint", i |-> i]

\* The dict execute_plan returns.
ExecutionDict(e) ==
    [success |-> TRUE, project |-> e.project, tasks_created |-> Len(e.tasks),
     sprints_created |-> Len(e.sprints), project_id |-> e.project.id,
     tasks |-> e.tasks, sprints |-> e.sprints]

\* The response the handler builds from execute_plan's dict, before the
\* summary: blocks 1 and 2 answer "create_project", the default block
\* "generate_plan" without the sprint count.
PlanResponse(block, e) ==
    LET d == ExecutionDict(e)
    IN IF block = "generate_plan"
       THEN UnifiedAgentResponse(TRUE, "generate_plan",
                [project |-> d.project, tasks_created |-> d.tasks_created], None, d)
       ELSE UnifiedAgentResponse(TRUE, "create_project",
                [project |-> d.project, tasks_created |-> d.tasks_created,
                 sprints_created |-> d.sprints_created], None, d)

\* The handler moves on after a store call of execute_plan.
ExecGoto(c, e) ==
    /\ execution' = e
    /\ CASE c.to = "raise" -> Raise500 /\ UNCHANGED <<cursor, pending>>
         [] c.to = "return" ->
                /\ pc' = "summarize"
                /\ pending' = PlanResponse(branch, e)
                /\ UNCHANGED <<cursor, response>>
         [] OTHER ->
                /\ pc' = c.to
                /\ cursor' = [cursor EXCEPT !.i = c.i]
                /\ UNCHANGED <<pending, response>>

\* A store call of execute_plan fails: every create_* call commits in a
\* session of its own and execute_plan has no except clause, so the rows
\* committed before stay and the exception reaches the handler.
PlanStoreFailureRollsBack ==
    /\ StoreFailed
    /\ Raise500
    /\ projects' = InitialProjects
    /\ sprints' = <<>>
    /\ tasks' = IF execution = Unset THEN tasks
                ELSE SelectSeq(tasks, LAMBDA row : row.project_id # execution.project.id)
    /\ UNCHANGED nextId

PlanStoreFailure ==
    /\ StoreFailed
    /\ Raise500
    /\ UNCHANGED storeVars

\* generate_project_plan: one backend call, the extraction, json.loads.
GenerateProjectPlan(replies) ==
    /\ pc = "generate_project_plan"
    /\ IF ~enabled
       THEN Raise500 /\ UNCHANGED <<calls, reply, plan>>
       ELSE \E r \in replies :
               /\ BackendCalled
               /\ reply' = r
               /\ IF r = BackendFailure
                  THEN Raise500 /\ UNCHANGED plan
                  ELSE \E value \in {ExtractPlan(r.text)} :
                         IF value = JsonError
                         THEN Raise500 /\ UNCHANGED plan
                         ELSE /\ plan' = value
                              /\ pc' = "create_project"
                              /\ UNCHANGED response
    /\ UNCHANGED <<enabled, request, branch, storeVars, execution, task_list, created_tasks, task,
                   cursor, fetched, target_task, result, pending, extractVars>>

\* execute_plan: the configuration check and AgentTools.create_project.
ExecCreateProject ==
    /\ pc = "create_project"
    /\ LET project_data == [name |-> Get(plan, K_project_name, None),
                            description |-> Get(plan, K_overview, None),
                            category |-> JStr(S_ai_generated)]
       IN IF ~enabled \/ ~IsDict(plan) \/ CreateProjectRaises(project_data)
          THEN Raise500 /\ UNCHANGED <<storeVars, calls, execution, cursor, pending>>
          ELSE \E now \in Clock, ok \in BOOLEAN :
                  LET row == NewProject(Uuid(nextId), project_data, now)
                  IN IF ok /\ ProjectAccepted(row, projects)
                     THEN /\ projects' = Append(projects, row)
                          /\ nextId' = nextId + 1
                          /\ StoreWritten
                          /\ ExecGoto(AfterSprint(plan, 1),
                                 [project |-> ProjectDict(row), sprints |-> <<>>, tasks |-> <<>>])
                          /\ UNCHANGED <<sprints, tasks>>
                     ELSE PlanStoreFailure /\ UNCHANGED <<execution, cursor, pending>>
    /\ UNCHANGED <<enabled, request, branch, reply, plan, task_list, created_tasks, task,
                   fetched, target_task, result, extractVars>>

\* execute_plan: AgentTools.create_sprint for milestone cursor.i.
ExecCreateSprint ==
    /\ pc = "create_sprint"
    /\ LET milestone == MilestoneItems(plan)[cursor.i]
           sprint_data == [name |-> Get(milestone, K_name, None),
                           description |-> Get(milestone, K_description, None),
                           goal |-> Get(milestone, K_description, None)]
           row == NewSprint(Uuid(nextId), sprint_data, execution.project.id)
       IN \E ok \in BOOLEAN :
             IF ok /\ SprintAccepted(row, projects)
             THEN /\ sprints' = Append(sprints, row)
                  /\ nextId' = nextId + 1
                  /\ StoreWritten
                  /\ ExecGoto(AfterSprint(plan, cursor.i + 1),
                         [execution EXCEPT !.sprints = Append(@, SprintDict(row))])
                  /\ UNCHANGED <<projects, tasks>>
             ELSE PlanStoreFailure /\ UNCHANGED <<execution, cursor, pending>>
    /\ UNCHANGED <<enabled, request, branch, reply, plan, task_list, created_tasks, task,
                   fetched, target_task, result, extractVars>>

\* execute_plan: AgentTools.create_task for plan task cursor.i.
ExecCreateTask ==
    /\ pc = "create_plan_task"
    /\ LET task_data == TaskItems(plan)[cursor.i]
           data == [name |-> Get(task_data, K_name, None), content |-> None,
                    description |-> Get(task_data, K_description, None),
                    priority |-> Get(task_data, K_priority, JStr(S_medium)),
                    estimated_hours |-> Get(task_data, K_estimated_hours, None),
                    assignee |-> None, tags |-> JArr(<<JStr(S_ai_generated)>>)]
           row == NewTask(Uuid(nextId), data, execution.project.id)
       IN \E ok \in BOOLEAN :
             IF ok /\ TaskAccepted(row, projects)
             THEN /\ tasks' = Append(tasks, row)
                  /\ nextId' = nextId + 1
                  /\ StoreWritten
                  /\ ExecGoto(AfterTask(plan, cursor.i + 1),
                         [execution EXCEPT !.tasks = Append(@, TaskDict(row))])
                  /\ UNCHANGED <<projects, sprints>>
             ELSE PlanStoreFailure /\ UNCHANGED <<execution, cursor, pending>>
    /\ UNCHANGED <<enabled, request, branch, reply, plan, task_list, created_tasks, task,
                   fetched, target_task, result, extractVars>>

(***************************************************************************)
(* generate_natural_language_response: one backend call; when it fails the *)
(* fixed apology is the message, whether or not the log file is written.   *)
(***************************************************************************)
Apology == [kind |-> "apology"]
Summary == [kind |-> "summary"]

\* The backend answers, or the call raises and open() or write() on the log
\* file then succeeds or raises.
SummarizerOutcomes == {"text", "failure", "failure and log failure"}

\* The exception of the log file write leaves the function.
NaturalLanguageResponseOrLogError(r) ==
    IF r = "text" THEN Summary
    ELSE IF r = "failure" THEN Apology
    ELSE [kind |-> "raised"]

\* What generate_natural_language_response returns: the inner try/except
\* swallows the failure of the log file write.
NaturalLanguageResponse(r) == IF r = "text" THEN Summary ELSE Apology

\* The handler's return statement after the summary: message=nl_response.
Summarized(nl_response) ==
    IF pending.kind # "response" THEN Finish(pending)
    ELSE IF nl_response = [kind |-> "raised"] THEN Raise500
    ELSE Finish([pending EXCEPT !.message = nl_response])

Summarize ==
    /\ pc = "summarize"
    /\ \E r \in SummarizerOutcomes :
          /\ BackendCalled
          /\ Summarized(NaturalLanguageResponse(r))
    /\ UNCHANGED <<enabled, request, branch, storeVars, reply, localVars, extractVars>>

(***************************************************************************)
(* modify_task: the interpretation of the request, the search for the      *)
(* target among the project's tasks, and update_task or delete_task.       *)
(***************************************************************************)
\* An error dict without the success flag.
ErrorWithoutFlag == [message |-> [kind |-> "error"]]

\* {"success": False, "message": f"Error modifying task: {e}"}
ErrorResult == [success |-> FALSE, message |-> [kind |-> "error"]]

\* The not-found message without the search string.
NotFoundUnnamed(target_name) ==
    [success |-> FALSE, message |-> [kind |-> "not_found", target |-> <<>>]]

\* {"success": False, "message": f"Could not find task matching '{target_name}'"}
NotFoundResult(target_name) ==
    [success |-> FALSE, message |-> [kind |-> "not_found", target |-> target_name]]

\* An unknown action reported as carried out.
UnknownActionAccepted == [success |-> TRUE, message |-> [kind |-> "unknown_action"]]

\* {"success": False, "message": "Unknown action"}
UnknownActionResult == [success |-> FALSE, message |-> [kind |-> "unknown_action"]]

\* The response the handler builds from modify_task's result, before the
\* summary: action is result.get("action", "modify_task"); result["success"]
\* raises KeyError on a dict without the flag.
ModifyResponse(res) ==
    IF "success" \in DOMAIN res
    THEN UnifiedAgentResponse(res.success,
             IF "action" \in DOMAIN res THEN res.action ELSE "modify_task", res, None, None)
    ELSE HttpError(500)

\* modify_task returns res; the handler goes on to summarize it.
ModifyReturn(res) ==
    /\ result' = res
    /\ pending' = ModifyResponse(res)
    /\ pc' = "summarize"
    /\ UNCHANGED response

\* (value or "").lower() for a column of a task.
LowerText(v) == IF Truthy(v) THEN Lower(v.s) ELSE <<>>

\* The search on the title alone.
TaskMatchesTitle(row, target_name) == Contains(LowerText(row.content), target_name)

\* target_name in content or target_name in description
TaskMatches(row, target_name) ==
    \/ Contains(LowerText(row.content), target_name)
    \/ Contains(LowerText(row.description), target_name)

\* The loop over tasks: the position of the first match, 0 when none.
FirstMatch(list, target_name) ==
    IF \E i \in 1..Len(list) : TaskMatches(list[i], target_name)
    THEN CHOOSE i \in 1..Len(list) :
            /\ TaskMatches(list[i], target_name)
            /\ \A j \in 1..(i - 1) : ~TaskMatches(list[j], target_name)
    ELSE 0

\* select(Task).where(Task.project_id == project_id): the rows of the
\* project, in table order.
RECURSIVE RowsOfProject(_, _)
RowsOfProject(table, project_id) ==
    IF table = <<>> THEN <<>>
    ELSE (IF Head(table).project_id = project_id THEN <<Head(table)>> ELSE <<>>)
         \o RowsOfProject(Tail(table), project_id)

\* The orders in which the store may return rows: the query has no ORDER BY.
Orders(rows) == {[i \in 1..Len(rows) |-> rows[p[i]]] : p \in Permutations(1..Len(rows))}

\* The position of the row with primary key id, 0 when there is none.
RowIndex(table, id) ==
    IF \E i \in 1..Len(table) : table[i].id = id
    THEN CHOOSE i \in 1..Len(table) : table[i].id = id
    ELSE 0

\* The loop with the assignee left as it was.
ApplyUpdatesButAssignee(row, updates) ==
    [id |-> Get(updates, K_id, row.id),
     content |-> Get(updates, K_content, row.content),
     description |-> Get(updates, K_description, row.description),
     status |-> Get(updates, K_status, row.status),
     priority |-> Get(updates, K_priority, row.priority),
     assignee |-> row.assignee,
     estimated_hours |-> Get(updates, K_estimated_hours, row.estimated_hours),
     tags |-> row.tags,
     project_id |-> Get(updates, K_project_id, row.project_id),
     parent_id |-> row.parent_id]

\* update_task's loop: setattr(task, key, value) for every key of updates
\* that is an attribute of the task.
ApplyUpdates(row, updates) ==
    [id |-> Get(updates, K_id, row.id),
     content |-> Get(updates, K_content, row.content),
     description |-> Get(updates, K_description, row.description),
     status |-> Get(updates, K_status, row.status),
     priority |-> Get(updates, K_priority, row.priority),
     assignee |-> Get(updates, K_assignee, row.assignee),
     estimated_hours |-> Get(updates, K_estimated_hours, row.estimated_hours),
     tags |-> row.tags,
     project_id |-> Get(updates, K_project_id, row.project_id),
     parent_id |-> row.parent_id]

\* The commit of an updated row: the constraints of create_task's rows, a
\* nullable status and a primary key no other row holds.
UpdateAccepted(row, idx, table, projectTable) ==
    /\ TaskAccepted(row, projectTable)
    /\ NullableText(row.status)
    /\ row.id.t = "str"
    /\ \A i \in 1..Len(table) : i # idx => table[i].id # row.id

\* delete removes the row unless another task references it as its parent.
DeleteAccepted(id, table) == \A i \in 1..Len(table) : table[i].parent_id # id

RemoveAt(table, idx) == SubSeq(table, 1, idx - 1) \o SubSeq(table, idx + 1, Len(table))

\* modify_task up to its store read: the configuration check, one backend
\* call, the fence stripping and json.loads.
ModifyTask(replies) ==
    /\ pc = "modify_task"
    /\ IF ~enabled
       THEN Raise500 /\ UNCHANGED <<calls, reply, plan, result, pending>>
       ELSE \E r \in replies :
               /\ BackendCalled
               /\ reply' = r
               /\ IF r = BackendFailure
                  THEN ModifyReturn(ErrorResult) /\ UNCHANGED plan
                  ELSE \E modification_plan \in {ExtractModification(r.text)} :
                         IF modification_plan = JsonError
                         THEN ModifyReturn(ErrorResult) /\ UNCHANGED plan
                         ELSE /\ plan' = modification_plan
                              /\ pc' = "get_tasks_by_project"
                              /\ UNCHANGED <<result, pending, response>>
    /\ UNCHANGED <<enabled, request, branch, storeVars, execution, task_list, created_tasks, task,
                   cursor, fetched, target_task, extractVars>>

\* modify_task: get_tasks_by_project, the search and the choice of action.
ModifyFind ==
    /\ pc = "get_tasks_by_project"
    /\ \E ok \in BOOLEAN :
          IF ~ok
          THEN /\ StoreReadFailed
               /\ ModifyReturn(ErrorResult)
               /\ UNCHANGED <<fetched, target_task>>
          ELSE \E list \in Orders(RowsOfProject(tasks, request.project_id)) :
                 /\ StoreRead
                 /\ fetched' = list
                 /\ IF ~IsDict(plan) \/ Get(plan, K_target_task_name, JStr(<<>>)).t # "str"
                    THEN ModifyReturn(ErrorResult) /\ UNCHANGED target_task
                    ELSE LET target_name == Lower(Get(plan, K_target_task_name, JStr(<<>>)).s)
                             found == FirstMatch(list, target_name)
                             action == Get(plan, K_action, None)
                         IN IF found = 0
                            THEN ModifyReturn(NotFoundResult(target_name)) /\ UNCHANGED target_task
                            ELSE /\ target_task' = list[found]
                                 /\ IF action = JStr(S_update)
                                    THEN pc' = "update_task" /\ UNCHANGED <<result, pending, response>>
                                    ELSE IF action = JStr(S_delete)
                                    THEN pc' = "delete_task" /\ UNCHANGED <<result, pending, response>>
                                    ELSE ModifyReturn(UnknownActionResult)
    /\ UNCHANGED <<enabled, request, branch, storeVars, reply, plan, execution, task_list,
                   created_tasks, task, cursor, extractVars>>

\* modify_task: AgentTools.update_task(target_task["id"], updates).
ModifyUpdate ==
    /\ pc = "update_task"
    /\ LET updates == Get(plan, K_updates, JObj(<<>>))
           idx == RowIndex(tasks, target_task.id)
       IN \E ok \in BOOLEAN :
             IF ok /\ idx # 0 /\ IsDict(updates)
                   /\ UpdateAccepted(ApplyUpdates(tasks[idx], updates), idx, tasks, projects)
             THEN LET row == ApplyUpdates(tasks[idx], updates)
                  IN /\ tasks' = [tasks EXCEPT ![idx] = row]
                     /\ StoreWritten
                     /\ ModifyReturn([success |-> TRUE, action |-> "update", task |-> row,
                                      message |-> [kind |-> "updated", content |-> row.content]])
             ELSE /\ StoreFailed
                  /\ ModifyReturn(ErrorResult)
                  /\ UNCHANGED tasks
    /\ UNCHANGED <<enabled, request, branch, projects, sprints, nextId, reply, plan, execution,
                   task_list, created_tasks, task, cursor, fetched, target_task, extractVars>>

\* modify_task: AgentTools.delete_task(target_task["id"]); its bool is not
\* looked at.
ModifyDelete ==
    /\ pc = "delete_task"
    /\ LET idx == RowIndex(tasks, target_task.id)
           done == [success |-> TRUE, action |-> "delete", task |-> target_task,
                    message |-> [kind |-> "deleted", content |-> target_task.content]]
       IN \E ok \in BOOLEAN :
             IF ok /\ idx = 0
             THEN StoreRead /\ ModifyReturn(done) /\ UNCHANGED tasks
             ELSE IF ok /\ DeleteAccepted(target_task.id, tasks)
             THEN /\ tasks' = RemoveAt(tasks, idx)
                  /\ StoreWritten
                  /\ ModifyReturn(done)
             ELSE /\ StoreFailed
                  /\ ModifyReturn(ErrorResult)
                  /\ UNCHANGED tasks
    /\ UNCHANGED <<enabled, request, branch, projects, sprints, nextId, reply, plan, execution,
                   task_list, created_tasks, task, cursor, fetched, target_task, extractVars>>

\* The robot emoji (U+1F916) of the reasoning note, as one character.
Robot == "ROBOT"
K_subtasks == <<"s", "u", "b", "t", "a", "s", "k", "s">>
S_reasoning_mark ==
    <<"\n", "\n", "*", "*", Robot, " ", "A", "I", " ", "R", "e", "a", "s", "o", "n", "i", "n", "g",
      ":", "*", "*", " ">>

(***************************************************************************)
(* Blocks 2 and 5: get_project_by_id, generate_task_list and one           *)
(* create_task per draft and per sub-task name.                            *)
(***************************************************************************)
\* The dict generate_task_list returned.
TaskListDict(tl) ==
    IF tl.kind = "question" THEN JObj(K_question :> JStr(tl.question)) ELSE tl.value

\* task_list.get("tasks", []) and what the for loop visits.
Drafts(d) == Get(d, K_tasks, JArr(<<>>))
DraftItems(d) == IF Iterable(Drafts(d)) THEN Items(Drafts(d)) ELSE <<>>

\* description = task_data.get("description", ""), with the reasoning
\* appended when there is one; += raises unless both are str.
DraftDescriptionRaises(task_data) ==
    /\ Truthy(Get(task_data, K_assignment_reasoning, None))
    /\ \/ Get(task_data, K_description, JStr(<<>>)).t # "str"
       \/ Get(task_data, K_assignment_reasoning, None).t # "str"

DraftDescription(task_data) ==
    IF Truthy(Get(task_data, K_assignment_reasoning, None))
    THEN JStr(Get(task_data, K_description, JStr(<<>>)).s \o S_reasoning_mark
              \o Get(task_data, K_assignment_reasoning, None).s)
    ELSE Get(task_data, K_description, JStr(<<>>))

\* task_data.get("sub_tasks") and what `for sub_name in ...` visits.
SubTasks(task_data) == Get(task_data, K_sub_tasks, None)
SubTasksRaise(task_data) == Truthy(SubTasks(task_data)) /\ ~Iterable(SubTasks(task_data))
SubTaskItems(task_data) ==
    IF Truthy(SubTasks(task_data)) /\ Iterable(SubTasks(task_data))
    THEN Items(SubTasks(task_data))
    ELSE <<>>

\* The response of block 2 (returned inside its for loop) and of block 5.
TasksResponse(block, created) ==
    IF block = "create_tasks"
    THEN UnifiedAgentResponse(TRUE, "create_tasks", [tasks |-> created], None,
             [tasks_created |-> Len(created)])
    ELSE UnifiedAgentResponse(TRUE, "create_task", [tasks |-> created], None, None)

\* Where the handler goes at the head of its for loop over the drafts.
\* Block 2 has no statement after its loop: the handler returns None.
AtDraft(block, d, i) ==
    IF ~Iterable(Drafts(d)) THEN [to |-> "raise"]
    ELSE IF i > Len(DraftItems(d))
         THEN IF block = "create_tasks" THEN [to |-> "return None"] ELSE [to |-> "return"]
    ELSE IF ~IsDict(DraftItems(d)[i]) \/ DraftDescriptionRaises(DraftItems(d)[i])
         THEN [to |-> "raise"]
    ELSE [to |-> "create_task"]

\* Where the handler goes once draft i and its sub-tasks are created:
\* created_tasks.append(task), then block 2 returns and block 5 loops.
DraftDone(block, d, i) ==
    IF block = "create_tasks" THEN [to |-> "return"] ELSE AtDraft(block, d, i + 1)

\* Where the handler goes at the head of its loop over the sub-task names.
AtSubTask(block, d, i, j) ==
    IF SubTasksRaise(DraftItems(d)[i]) THEN [to |-> "raise"]
    ELSE IF j > Len(SubTaskItems(DraftItems(d)[i])) THEN DraftDone(block, d, i)
    ELSE [to |-> "create_subtask"]

\* The handler moves on: c is where, i and j the loop positions, created
\* the created_tasks list then.
TasksGoto(c, i, j, created) ==
    /\ cursor' = [i |-> i, j |-> j]
    /\ CASE c.to = "raise" -> Raise500 /\ UNCHANGED <<created_tasks, pending>>
         [] c.to = "return None" ->
                Finish([kind |-> "null"]) /\ UNCHANGED <<created_tasks, pending>>
         [] c.to = "return" ->
                /\ created_tasks' = created
                /\ pending' = TasksResponse(branch, created)
                /\ pc' = "summarize"
                /\ UNCHANGED response
         [] OTHER ->
                /\ pc' = c.to
                /\ created_tasks' = created
                /\ UNCHANGED <<pending, response>>

\* AgentTools.get_project_by_id: the project's name and description go into
\* the generator's prompt.
GetProjectById ==
    /\ pc = "get_project_by_id"
    /\ \E ok \in BOOLEAN :
          IF ok
          THEN StoreRead /\ pc' = "generate_task_list" /\ UNCHANGED response
          ELSE StoreReadFailed /\ Raise500
    /\ UNCHANGED <<enabled, request, branch, storeVars, reply, localVars, extractVars>>

\* generate_task_list, then the handler up to its first create_task.
GenerateTaskList(replies) ==
    /\ pc = "generate_task_list"
    /\ IF ~enabled
       THEN Raise500 /\ UNCHANGED <<calls, reply, task_list, created_tasks, cursor, pending>>
       ELSE \E r \in replies :
               /\ BackendCalled
               /\ reply' = r
               /\ IF r = BackendFailure
                  THEN Raise500 /\ UNCHANGED <<task_list, created_tasks, cursor, pending>>
                  ELSE \E tl \in {TaskListFromText(r.text)} :
                         IF tl = GenFailure
                         THEN Raise500 /\ UNCHANGED <<task_list, created_tasks, cursor, pending>>
                         ELSE \E d \in {TaskListDict(tl)} :
                                /\ task_list' = tl
                                /\ IF ~IsDict(d)
                                   THEN Raise500 /\ UNCHANGED <<created_tasks, cursor, pending>>
                                   ELSE IF branch = "create_tasks"
                                           /\ Truthy(Get(d, K_question, None))
                                   THEN /\ Finish(UnifiedAgentResponse(TRUE,
                                               "clarification_needed",
                                               [question |-> Get(d, K_question, None)],
                                               Get(d, K_question, None), None))
                                        /\ UNCHANGED <<created_tasks, cursor, pending>>
                                   ELSE \E c \in {AtDraft(branch, d, 1)} :
                                           TasksGoto(c, 1, 0, <<>>)
    /\ UNCHANGED <<enabled, request, branch, storeVars, plan, execution, task, fetched,
                   target_task, result, extractVars>>

\* The task_data dict the handler passes to create_task for a draft.
DraftTaskData(task_data) ==
    [name |-> Get(task_data, K_name, None), content |-> None,
     description |-> DraftDescription(task_data),
     priority |-> Get(task_data, K_priority, JStr(S_medium)),
     estimated_hours |-> Get(task_data, K_estimated_hours, None),
     assignee |-> Get(task_data, K_assignee, None),
     tags |-> JArr(<<JStr(S_ai_generated)>>)]

\* The task_data dict the handler passes to create_task for a sub-task
\* name: it carries parent_id, the draft's priority and the tags.
SubTaskData(task_data, sub_name, parent) ==
    [name |-> sub_name, content |-> None, description |-> None,
     priority |-> Get(task_data, K_priority, JStr(S_medium)),
     estimated_hours |-> None, assignee |-> None,
     parent_id |-> parent.id,
     tags |-> JArr(<<JStr(S_ai_generated), JStr(S_subtask)>>)]

\* The handler's create_task for draft cursor.i.
CreateDraftTask ==
    /\ pc = "create_task"
    /\ \E d \in {TaskListDict(task_list)} :
       \E task_data \in {DraftItems(d)[cursor.i]} :
       \E row \in {NewTask(Uuid(nextId), DraftTaskData(task_data), request.project_id)} :
       \E ok \in BOOLEAN :
          IF ok /\ TaskAccepted(row, projects)
          THEN /\ tasks' = Append(tasks, row)
               /\ nextId' = nextId + 1
               /\ StoreWritten
               /\ task' = TaskDict(row)
               /\ IF Truthy(SubTasks(task_data))
                  THEN \E c \in {AtSubTask(branch, d, cursor.i, 1)} :
                          TasksGoto(c, cursor.i, 1, created_tasks)
                  ELSE \E c \in {DraftDone(branch, d, cursor.i)} :
                          TasksGoto(c, cursor.i + 1, 0, Append(created_tasks, TaskDict(row)))
               /\ UNCHANGED <<projects, sprints>>
          ELSE /\ StoreFailed
               /\ Raise500
               /\ UNCHANGED <<storeVars, task, created_tasks, cursor, pending>>
    /\ UNCHANGED <<enabled, request, branch, reply, plan, execution, task_list, fetched,
                   target_task, result, extractVars>>

\* The handler's create_task for sub-task name cursor.j of draft cursor.i.
CreateSubTask ==
    /\ pc = "create_subtask"
    /\ \E d \in {TaskListDict(task_list)} :
       \E task_data \in {DraftItems(d)[cursor.i]} :
       \E subs \in {SubTaskItems(task_data)} :
       \E row \in {NewTask(Uuid(nextId), SubTaskData(task_data, subs[cursor.j], task),
                           request.project_id)} :
       \E ok \in BOOLEAN :
          IF ok /\ TaskAccepted(row, projects)
          THEN /\ tasks' = Append(tasks, row)
               /\ nextId' = nextId + 1
               /\ StoreWritten
               /\ IF cursor.j + 1 > Len(subs)
                  THEN \E c \in {DraftDone(branch, d, cursor.i)} :
                          TasksGoto(c, cursor.i + 1, 0, Append(created_tasks, task))
                  ELSE TasksGoto([to |-> "create_subtask"], cursor.i, cursor.j + 1,
                                 created_tasks)
               /\ UNCHANGED <<projects, sprints>>
          ELSE /\ StoreFailed
               /\ Raise500
               /\ UNCHANGED <<storeVars, created_tasks, cursor, pending>>
    /\ UNCHANGED <<enabled, request, branch, reply, plan, execution, task_list, task, fetched,
                   target_task, result, extractVars>>

K_total_tasks == <<"t", "o", "t", "a", "l", "_", "t", "a", "s", "k", "s">>
K_completion_rate ==
    <<"c", "o", "m", "p", "l", "e", "t", "i", "o", "n", "_", "r", "a", "t", "e">>
K_in_progress == <<"i", "n", "_", "p", "r", "o", "g", "r", "e", "s", "s">>
K_overloaded_members ==
    <<"o", "v", "e", "r", "l", "o", "a", "d", "e", "d", "_", "m", "e", "m", "b", "e", "r", "s">>
K_burnout_risk == <<"b", "u", "r", "n", "o", "u", "t", "_", "r", "i", "s", "k">>
S_empty == <<"e", "m", "p", "t", "y">>
S_High == <<"H", "i", "g", "h">>
S_Low == <<"L", "o", "w">>

(***************************************************************************)
(* Block 4: get_project_health and the summary lines the handler builds    *)
(* from its result.                                                        *)
(***************************************************************************)
\* An assignee is overloaded with more than this many open tasks.
OverloadLimit == 5

\* sum(1 for t in tasks if t.status == status)
RECURSIVE CountStatus(_, _)
CountStatus(rows, status) ==
    IF rows = <<>> THEN 0
    ELSE (IF rows[1].status = JStr(status) THEN 1 ELSE 0) + CountStatus(Tail(rows), status)

\* assignee_counts[k]: the tasks of assignee k that are not done.
RECURSIVE OpenTasksOf(_, _)
OpenTasksOf(rows, k) ==
    IF rows = <<>> THEN 0
    ELSE (IF rows[1].assignee = k /\ rows[1].status # JStr(S_done) THEN 1 ELSE 0)
         + OpenTasksOf(Tail(rows), k)

\* The keys of assignee_counts, those at the limit kept as well.
RECURSIVE OverloadedAtLimit(_, _, _)
OverloadedAtLimit(rows, all, seen) ==
    IF rows = <<>> THEN <<>>
    ELSE LET k == rows[1].assignee
         IN IF Truthy(k) /\ rows[1].status # JStr(S_done) /\ k \notin seen
            THEN (IF OpenTasksOf(all, k) >= OverloadLimit THEN <<k>> ELSE <<>>)
                 \o OverloadedAtLimit(Tail(rows), all, seen \cup {k})
            ELSE OverloadedAtLimit(Tail(rows), all, seen)

\* The keys of assignee_counts in insertion order, those over the limit kept.
RECURSIVE Overloaded(_, _, _)
Overloaded(rows, all, seen) ==
    IF rows = <<>> THEN <<>>
    ELSE LET k == rows[1].assignee
         IN IF Truthy(k) /\ rows[1].status # JStr(S_done) /\ k \notin seen
            THEN (IF OpenTasksOf(all, k) > OverloadLimit THEN <<k>> ELSE <<>>)
                 \o Overloaded(Tail(rows), all, seen \cup {k})
            ELSE Overloaded(Tail(rows), all, seen)

\* The (completed, total) pairs up to 100 tasks at which the double product
\* (completed / total) * 100 falls just below the exact value: 29 / 50 is
\* 0.58 and the product 57.99999999999999.
TruncatedBelow == {<<29, 50>>, <<29, 100>>, <<57, 100>>, <<58, 100>>}

\* int((completed / total) * 100) in double arithmetic, for up to 100 tasks.
CompletionRate(completed, total) ==
    IF <<completed, total>> \in TruncatedBelow
    THEN (completed * 100) \div total - 1
    ELSE (completed * 100) \div total

\* The dict get_project_health returns for the rows of the project.
ProjectHealth(rows) ==
    IF Len(rows) = 0
    THEN JObj(K_status :> JStr(S_empty) @@ K_completion_rate :> JNum(0))
    ELSE JObj(K_total_tasks :> JNum(Len(rows))
              @@ K_completion_rate :> JNum(CompletionRate(CountStatus(rows, S_done), Len(rows)))
              @@ K_in_progress :> JNum(CountStatus(rows, S_inprogress))
              @@ K_overloaded_members :> JArr(Overloaded(rows, rows, {}))
              @@ K_burnout_risk :> JStr(IF Overloaded(rows, rows, {}) # <<>> THEN S_High
                                                                          ELSE S_Low))

\* The handler's summary reads health['completion_rate'], ['in_progress'],
\* ['overloaded_members'] and, with overloaded members, ['burnout_risk'].
HealthSummaryRaises(health) ==
    \/ K_completion_rate \notin DOMAIN health.o
    \/ K_in_progress \notin DOMAIN health.o
    \/ K_overloaded_members \notin DOMAIN health.o

GetProjectHealth ==
    /\ pc = "get_project_health"
    /\ \E ok \in BOOLEAN :
          IF ok
          THEN /\ StoreRead
               /\ LET health == ProjectHealth(RowsOfProject(tasks, request.project_id))
                  IN IF HealthSummaryRaises(health)
                     THEN Raise500 /\ UNCHANGED <<result, pending>>
                     ELSE /\ result' = health
                          /\ pending' = UnifiedAgentResponse(TRUE, "project_health", health,
                                            None, None)
                          /\ pc' = "summarize"
                          /\ UNCHANGED response
          ELSE StoreReadFailed /\ Raise500 /\ UNCHANGED <<result, pending>>
    /\ UNCHANGED <<enabled, request, branch, storeVars, reply, plan, execution, task_list,
                   created_tasks, task, cursor, fetched, target_task, extractVars>>

(***************************************************************************)
(* Breakdown, estimation and prioritization: one generator call each, and  *)
(* the response built from its value without a summary call.               *)
(***************************************************************************)
\* len(v) raises TypeError on a number, a bool or None.
HasLen(v) == v.t \in {"arr", "str", "obj"}

\* f"Generated {len(breakdown.get('subtasks', []))} subtasks" raises when
\* breakdown is no dict or its subtasks have no length.
BreakdownMessageRaises(breakdown) ==
    \/ ~IsDict(breakdown)
    \/ ~HasLen(Get(breakdown, K_subtasks, JArr(<<>>)))

\* The generator called at each of the three places, and whether the
\* handler's message raises on its value.
ExtractAt(at, text) ==
    CASE at = "breakdown_task" -> ExtractBreakdown(text)
      [] at = "generate_estimates" -> ExtractEstimates(text)
      [] at = "prioritize_backlog" -> ExtractPrioritization(text)

MessageRaises(at, value) == at = "breakdown_task" /\ BreakdownMessageRaises(value)

\* A generator of the three: not configured, a failed backend call or text
\* that does not parse raise ValueError, which the handler turns into 500.
GeneratorStep(replies, at, field) ==
    /\ pc = at
    /\ IF ~enabled
       THEN Raise500 /\ UNCHANGED <<calls, reply, result>>
       ELSE \E r \in replies :
               /\ BackendCalled
               /\ reply' = r
               /\ IF r = BackendFailure
                  THEN Raise500 /\ UNCHANGED result
                  ELSE \E value \in {ExtractAt(at, r.text)} :
                         IF value = JsonError \/ MessageRaises(at, value)
                         THEN Raise500 /\ UNCHANGED result
                         ELSE /\ result' = value
                              /\ Finish(UnifiedAgentResponse(TRUE, at, field :> value,
                                     [kind |-> "count"], None))
    /\ UNCHANGED <<enabled, request, branch, storeVars, plan, execution, task_list,
                   created_tasks, task, cursor, fetched, target_task, pending, extractVars>>

BreakdownTask(replies) == GeneratorStep(replies, "breakdown_task", "breakdown")

GenerateEstimates(replies) == GeneratorStep(replies, "generate_estimates", "estimates")

PrioritizeBacklog(replies) == GeneratorStep(replies, "prioritize_backlog", "prioritization")

S_prose_before ==
    <<"H", "e", "r", "e", " ", "i", "s", " ", "t", "h", "e", " ", "r", "e", "s", "u", "l", "t",
      ":", "\n">>
S_prose_after == <<"\n", "G", "o", "o", "d", " ", "l", "u", "c", "k", "!">>
S_sorry ==
    <<"S", "o", "r", "r", "y", ",", " ", "w", "h", "i", "c", "h", " ", "p", "r", "o", "j", "e",
      "c", "t", " ", "d", "o", " ", "y", "o", "u", " ", "m", "e", "a", "n", "?">>
S_login == <<"l", "o", "g", "i", "n">>
S_LOGIN == <<"L", "O", "G", "I", "N">>
S_logout == <<"l", "o", "g", "o", "u", "t">>
S_zzz == <<"z", "z", "z">>
S_archive == <<"a", "r", "c", "h", "i", "v", "e">>
S_low == <<"l", "o", "w">>
S_sam == <<"s", "a", "m">>
S_why == <<"f", "i", "t", "s">>
S_new_project == <<"n", "e", "w", " ", "p", "r", "o", "j", "e", "c", "t">>
S_create_tasks == <<"c", "r", "e", "a", "t", "e", " ", "t", "a", "s", "k", "s">>
S_update_task == <<"u", "p", "d", "a", "t", "e", " ", "t", "h", "e", " ", "t", "a", "s", "k">>
S_project_health == <<"p", "r", "o", "j", "e", "c", "t", " ", "h", "e", "a", "l", "t", "h">>
S_add_task == <<"a", "d", "d", " ", "t", "a", "s", "k">>
S_break_down == <<"b", "r", "e", "a", "k", " ", "d", "o", "w", "n">>
S_estimate == <<"e", "s", "t", "i", "m", "a", "t", "e">>
S_prioritize == <<"p", "r", "i", "o", "r", "i", "t", "i", "z", "e">>
S_summary == <<"s", "u", "m", "m", "a", "r", "y">>

(***************************************************************************)
(* What the backend may answer: a failure, or a text in one of the shapes  *)
(* the generators' prompts ask for or a chat model adds on its own.        *)
(***************************************************************************)
\* The text alone, in a json fence inside prose, in a plain fence, and
\* unfenced inside prose.
Clean(text) == text
Fenced(text) == S_prose_before \o FenceJson \o <<"\n">> \o text \o <<"\n">> \o Fence \o S_prose_after
PlainFenced(text) == Fence \o <<"\n">> \o text \o <<"\n">> \o Fence
Prosed(text) == S_prose_before \o text \o S_prose_after

Styles == {"clean", "fenced", "plain fenced", "prosed"}
InStyle(style, text) ==
    CASE style = "clean" -> Clean(text)
      [] style = "fenced" -> Fenced(text)
      [] style = "plain fenced" -> PlainFenced(text)
      [] style = "prosed" -> Prosed(text)

\* A named item of a plan: {"name": ..., "description": ...}.
Named(prefix, i) ==
    JObj(K_name :> JStr(<<prefix>> \o NatChars(i)) @@ K_description :> JStr(S_hello))
NamedItems(prefix, n) == JArr([i \in 1..n |-> Named(prefix, i)])

\* A plan with m milestones, n tasks and e epics.
PlanOf(m, n, e) ==
    JObj(K_project_name :> JStr(S_app) @@ K_overview :> JStr(S_hello)
         @@ K_milestones :> NamedItems("m", m) @@ K_tasks :> NamedItems("t", n)
         @@ K_epics :> NamedItems("e", e))

\* Plans with fields absent, and a plan whose second task is no object.
PlanWithoutName == JObj(K_overview :> JStr(S_hello) @@ K_tasks :> NamedItems("t", 1))
PlanWithNameOnly == JObj(K_project_name :> JStr(S_web))
PlanWithBadTask ==
    JObj(K_project_name :> JStr(S_web) @@ K_milestones :> NamedItems("m", 1)
         @@ K_tasks :> JArr(<<Named("t", 1), JNum(7)>>))

PlanValues ==
    {PlanOf(m, n, e) : m \in 0..MaxMilestones, n \in 0..MaxPlanTasks, e \in 0..MaxEpics}
    \cup {PlanWithoutName, PlanWithNameOnly, PlanWithBadTask}

PlanReplies ==
    {BackendFailure, BackendText(S_sorry), BackendText(Prosed(Dumps(PlanOf(1, 1, 0))))}
    \cup {BackendText(Fenced(Dumps(p))) : p \in PlanValues}

\* The interpretations of a modification request.
Modification(action, target, updates) ==
    JObj(K_action :> action @@ K_target_task_name :> target @@ K_updates :> updates)

UpdateValues ==
    {JObj(K_status :> JStr(S_done)),
     JObj(K_priority :> JStr(S_low) @@ K_assignee :> JStr(S_sam)),
     JObj(K_project_id :> JStr(S_P2)),
     JObj(K_id :> JStr(S_t9)),
     JObj(K_content :> None),
     JObj(K_id :> JStr(S_t0) @@ K_priority :> JStr(S_low))}

ModificationValues ==
    {Modification(JStr(S_update), JStr(target), u) :
        target \in {S_login, S_LOGIN, S_zzz}, u \in UpdateValues}
    \cup {Modification(JStr(S_delete), JStr(target), JObj(<<>>)) :
            target \in {S_login, S_logout, S_zzz, <<>>}}
    \cup {Modification(JStr(S_archive), JStr(S_login), JObj(<<>>)),
          Modification(JStr(S_update), None, JObj(<<>>)),
          JObj(K_action :> JStr(S_delete)),
          JArr(<<>>)}

ModifyReplies ==
    {BackendFailure, BackendText(S_sorry),
     BackendText(Fenced(Dumps(Modification(JStr(S_delete), JStr(S_login), JObj(<<>>)))))}
    \cup {BackendText(Clean(Dumps(v))) : v \in ModificationValues}

\* Task lists: drafts with and without sub-tasks and reasoning, a question,
\* and values that are no task list.
Draft(i) == JObj(K_name :> JStr(<<"d">> \o NatChars(i)) @@ K_description :> JStr(S_hello))
DraftWithSubTasks(k) ==
    JObj(K_name :> JStr(S_login) @@ K_priority :> JStr(S_low) @@ K_assignee :> JStr(S_sam)
         @@ K_assignment_reasoning :> JStr(S_why)
         @@ K_sub_tasks :> JArr([j \in 1..k |-> JStr(<<"s">> \o NatChars(j))]))
TaskListOf(drafts) == JObj(K_tasks :> JArr(drafts))

TaskListValues ==
    {TaskListOf([i \in 1..n |-> Draft(i)]) : n \in 0..MaxDrafts}
    \cup {TaskListOf(<<DraftWithSubTasks(k), Draft(1)>>) : k \in 1..MaxSubTasks}
    \cup {TaskListOf(<<JObj(K_description :> JStr(S_hello))>>),
          TaskListOf(<<JObj(K_name :> JStr(S_login) @@ K_sub_tasks :> JNum(3))>>),
          JObj(K_question :> JStr(S_sorry)),
          JObj(K_tasks :> JNum(1)),
          JArr(<<>>)}

TaskListReplies ==
    {BackendFailure, BackendText(S_sorry),
     BackendText(Repeat("x", QuestionLimit)),
     BackendText(Prosed(Dumps(TaskListOf(<<Draft(1)>>))))}
    \cup {BackendText(Fenced(Dumps(v))) : v \in TaskListValues}

\* Answers of the breakdown, estimation and prioritization generators.
GeneratorValues ==
    {JObj(K_subtasks :> JArr(<<JStr(S_login)>>)), JObj(K_subtasks :> JNum(2)),
     JObj(<<>>), JArr(<<JNum(1)>>)}

GeneratorReplies ==
    {BackendFailure, BackendText(S_sorry)}
    \cup {BackendText(InStyle(style, Dumps(v))) : style \in Styles, v \in GeneratorValues}

(***************************************************************************)
(* One command: POST /api/agent/execute with a prompt and a context.       *)
(***************************************************************************)
Prompts ==
    {S_new_project, S_create_tasks, S_update_task, S_project_health, S_add_task,
     S_break_down, S_estimate, S_prioritize, S_summary, S_hello}

\* context.get("project_id"): absent, the empty string, or project P1.
ProjectIds == {None, JStr(<<>>), JStr(S_P1)}

Requests == [prompt : Prompts, project_id : ProjectIds, has_tasks : BOOLEAN]

Init ==
    /\ InitHandler
    /\ enabled \in BOOLEAN
    /\ tasks \in InitialTaskTables
    /\ request \in Requests

Next ==
    \/ Route
    \/ GenerateProjectPlan(PlanReplies)
    \/ ExecCreateProject
    \/ ExecCreateSprint
    \/ ExecCreateTask
    \/ ModifyTask(ModifyReplies)
    \/ ModifyFind
    \/ ModifyUpdate
    \/ ModifyDelete
    \/ GetProjectById
    \/ GenerateTaskList(TaskListReplies)
    \/ CreateDraftTask
    \/ CreateSubTask
    \/ GetProjectHealth
    \/ BreakdownTask(GeneratorReplies)
    \/ GenerateEstimates(GeneratorReplies)
    \/ PrioritizeBacklog(GeneratorReplies)
    \/ Summarize

Spec == Init /\ [][Next]_vars


(***************************************************************************)
(* The extraction steps alone: each generator's extraction applied to one  *)
(* backend text, drawn from serialized values in every style and from      *)
(* texts that hold no JSON.                                                *)
(***************************************************************************)
S_which == <<"W", "h", "i", "c", "h", "?">>
S_with_fence == <<"u", "s", "e", " ">> \o Fence \o <<" ", "o", "k">>
S_with_braces == <<"a", " ", "}", " ", "{", " ", "b">>
K_a == <<"a">>
K_b == <<"b">>

\* Structured values: objects, arrays of numbers and of objects, strings
\* that hold fence and brace characters, and scalars.
NumberArray(n) == JArr([i \in 1..n |-> JNum(i)])
ObjectArray(n) == JArr([i \in 1..n |-> JObj(K_a :> JNum(i))])

ObjectValues ==
    {JObj(<<>>),
     JObj(K_name :> JStr(S_login)),
     JObj(K_a :> JNum(1) @@ K_b :> JObj(K_a :> JArr(<<JBool(TRUE), None>>))),
     JObj(K_overview :> JStr(S_with_fence)),
     JObj(K_overview :> JStr(S_with_braces)),
     PlanOf(1, 1, 1),
     Modification(JStr(S_update), JStr(S_login), JObj(K_status :> JStr(S_done))),
     TaskListOf(<<Draft(1)>>),
     JObj(K_question :> JStr(S_which))}

StructuredValues ==
    ObjectValues
    \cup {NumberArray(n) : n \in 0..MaxItems}
    \cup {ObjectArray(n) : n \in 1..MaxItems}
    \cup {JStr(S_with_braces), JStr(S_login), JNum(7), None}

\* Texts that hold no JSON, around the length generate_task_list tests.
PlainTexts ==
    {S_which, S_prose_before,
     Repeat("x", QuestionLimit - 1), Repeat("x", QuestionLimit),
     Fenced(S_which), PlainFenced(S_which),
     PlainFenced(S_which) \o Repeat("x", QuestionLimit),
     PlainFenced(Repeat("x", QuestionLimit)),
     Fenced(Repeat("x", QuestionLimit - 1))}

Samples ==
    {[style |-> style, value |-> v, text |-> InStyle(style, Dumps(v))] :
        style \in Styles, v \in StructuredValues}
    \cup {[style |-> "plain", value |-> Unset, text |-> text] : text \in PlainTexts}

\* What each generator makes of the backend text.
Extract ==
    /\ pc = "extract"
    /\ pc' = "extracted"
    /\ extracted' = [project_plan |-> ExtractPlan(sample.text),
                     breakdown |-> ExtractBreakdown(sample.text),
                     estimates |-> ExtractEstimates(sample.text),
                     health_summary |-> ExtractHealthSummary(sample.text),
                     prioritization |-> ExtractPrioritization(sample.text),
                     modification |-> ExtractModification(sample.text),
                     task_list |-> TaskListFromText(sample.text)]
    /\ UNCHANGED <<enabled, request, branch, storeVars, calls, reply, localVars, response,
                   sample>>

InitExtract ==
    /\ pc = "extract"
    /\ enabled = TRUE
    /\ request = [prompt |-> S_hello, project_id |-> None, has_tasks |-> FALSE]
    /\ branch = "none"
    /\ projects = InitialProjects
    /\ sprints = <<>>
    /\ tasks = <<>>
    /\ nextId = 1
    /\ calls = NoCalls
    /\ reply = Unset
    /\ plan = None
    /\ execution = Unset
    /\ task_list = Unset
    /\ created_tasks = <<>>
    /\ task = None
    /\ cursor = [i |-> 0, j |-> 0]
    /\ fetched = <<>>
    /\ target_task = None
    /\ result = Unset
    /\ pending = Unset
    /\ response = Unset
    /\ sample \in Samples
    /\ extracted = Unset

SpecExtract == InitExtract /\ [][Extract]_vars


(***************************************************************************)
(* Properties of the router.                                               *)
(***************************************************************************)
\* The capability of each rule group, in the priority order: project
\* creation, bulk task creation, modification, health, single task
\* creation, breakdown, estimation, prioritization.
GroupCapability ==
    <<"create_project", "create_tasks", "modify_task", "project_health", "create_task",
      "breakdown_task", "generate_estimates", "prioritize_backlog">>

\* The lower-cased prompt contains a keyword phrase of rule group g.
GroupMatches(g) ==
    \E i \in 1..Len(RuleGroups[g]) : Contains(Lower(request.prompt), RuleGroups[g][i])

\* C1: once the router has dispatched, the block entered is the one of the
\* matching rule group with the highest priority, whatever other groups the
\* prompt matches, and the plan-generation default is entered only when the
\* prompt matches none of the eight groups.
RouterPriority ==
    pc # "start" =>
        /\ \A g \in 1..Len(GroupCapability) :
              (GroupMatches(g) /\ \A h \in 1..(g - 1) : ~GroupMatches(h))
                  => branch = GroupCapability[g]
        /\ branch = "generate_plan" => \A g \in 1..Len(GroupCapability) : ~GroupMatches(g)

\* A prompt with phrases of the modification and the health groups was
\* dispatched to modification.
RouterPriorityWitness ==
    /\ pc # "start"
    /\ GroupMatches(3)
    /\ GroupMatches(4)
    /\ ~GroupMatches(1)
    /\ ~GroupMatches(2)
    /\ branch = "modify_task"

\* The capabilities that require a project id.
NeedsProjectId == {"modify_task", "project_health", "create_task", "prioritize_backlog"}

\* C2: a command whose block requires project_id and whose context has none
\* ends at once with HTTP 400: no backend call was made and the store was
\* neither read nor written.
RejectedBeforeAnyCall ==
    (pc # "start" /\ branch \in NeedsProjectId /\ ~Truthy(request.project_id)) =>
        /\ pc = "done"
        /\ response = HttpError(400)
        /\ calls = NoCalls
        /\ projects = InitialProjects
        /\ sprints = <<>>
        /\ tasks \in InitialTaskTables
        /\ nextId = 1

\* A prioritization command whose project id is the empty string was
\* rejected with HTTP 400.
RejectedWitness ==
    /\ pc = "done"
    /\ branch = "prioritize_backlog"
    /\ request.project_id = JStr(<<>>)
    /\ response = HttpError(400)

(***************************************************************************)
(* Properties of execute_plan.                                             *)
(***************************************************************************)
\* The command runs generate_project_plan and execute_plan: blocks 1 and
\* the default, and block 2 without a project id.
RunsExecutePlan ==
    \/ branch \in {"create_project", "generate_plan"}
    \/ branch = "create_tasks" /\ ~Truthy(request.project_id)

\* The store holds a row with this id.
Holds(table, id) == \E i \in 1..Len(table) : table[i].id = id

\* C3: when a store call of execute_plan has failed, the command has ended
\* in an error and the project, the sprints and the tasks committed before
\* the failure are all still in the store; the store holds exactly the rows
\* of the successful calls.
NoRollback ==
    (RunsExecutePlan /\ calls.failed > 0) =>
        /\ pc = "done"
        /\ response = HttpError(500)
        /\ IF execution = Unset
           THEN projects = InitialProjects /\ sprints = <<>> /\ tasks \in InitialTaskTables
           ELSE /\ Holds(projects, execution.project.id)
                /\ \A i \in 1..Len(execution.sprints) : Holds(sprints, execution.sprints[i].id)
                /\ \A i \in 1..Len(execution.tasks) : Holds(tasks, execution.tasks[i].id)
                /\ Len(projects) = Len(InitialProjects) + 1
                /\ Len(sprints) = Len(execution.sprints)
                /\ calls.writes = 2 + Len(execution.sprints) + Len(execution.tasks)

\* The store failed at the second task, after the project, a sprint and the
\* first task were committed.
NoRollbackWitness ==
    /\ RunsExecutePlan
    /\ calls.failed = 1
    /\ pc = "done"
    /\ execution # Unset
    /\ Len(execution.sprints) >= 1
    /\ Len(execution.tasks) = 1
    /\ Len(TaskItems(plan)) >= 2


\* The rows of a table that reference project id.
Referencing(table, id) == {i \in 1..Len(table) : table[i].project_id = id}

\* execute_plan ran to its return statement without a failed store call, on
\* the plan with m milestones, n tasks and e epics.
Executed(m, n, e) ==
    /\ RunsExecutePlan
    /\ pc \in {"summarize", "done"}
    /\ calls.failed = 0
    /\ plan = PlanOf(m, n, e)
    /\ execution # Unset

\* One project, m sprints and k tasks were created and reported, and every
\* created sprint and task references the created project.
Created(m, k) ==
    LET d == ExecutionDict(execution)
    IN /\ Len(projects) = Len(InitialProjects) + 1
       /\ projects[Len(projects)].id = d.project_id
       /\ ~Holds(InitialProjects, d.project_id)
       /\ Len(sprints) = m
       /\ Cardinality(Referencing(sprints, d.project_id)) = m
       /\ Cardinality(Referencing(tasks, d.project_id)) = k
       /\ \E table \in InitialTaskTables : Len(tasks) = Len(table) + k
       /\ calls.writes = 1 + m + k
       /\ d.sprints_created = m
       /\ d.tasks_created = k
       /\ pending.execution_details = d

\* C4 as stated: a plan with m milestones and n tasks yields one project, m
\* sprints and n tasks.
PlanCounts ==
    \A m \in 0..MaxMilestones, n \in 0..MaxPlanTasks, e \in 0..MaxEpics :
        Executed(m, n, e) => Created(m, n)

\* C4: a plan with m milestones, n tasks and e epics yields one project, m
\* sprints and n tasks, all referencing the created project, when it has a
\* task or no epic; a plan without tasks yields one task per epic.
PlanCountsWithEpics ==
    \A m \in 0..MaxMilestones, n \in 0..MaxPlanTasks, e \in 0..MaxEpics :
        Executed(m, n, e) => Created(m, IF n = 0 THEN e ELSE n)

\* A plan with two milestones, two tasks and an epic was executed.
PlanCountsWitness == Executed(2, 2, 1) /\ pc = "done"

(***************************************************************************)
(* Properties of modify_task.                                              *)
(***************************************************************************)
\* value.lower() of a column, "" for NULL.
ColumnLower(v) == IF v.t = "str" THEN Lower(v.s) ELSE <<>>

\* The title or the description of the row contains the target, whatever
\* the case of either.
ContainsTarget(row, target) ==
    \/ Contains(ColumnLower(row.content), Lower(target))
    \/ Contains(ColumnLower(row.description), Lower(target))

\* modify_task has read the project's tasks and its plan names a target.
Searched ==
    /\ branch = "modify_task"
    /\ pc \in {"update_task", "delete_task", "summarize", "done"}
    /\ calls.reads >= 1
    /\ calls.failed = 0 \/ target_task # None
    /\ IsDict(plan)
    /\ Get(plan, K_target_task_name, JStr(<<>>)).t = "str"

TargetName == Get(plan, K_target_task_name, JStr(<<>>)).s

\* C5: the task modify_task selects is the first of the tasks the store
\* returned whose title or description contains the target name, case
\* ignored; a task that does not contain it is never selected.
FirstMatchSelected ==
    Searched =>
        \A k \in 1..Len(fetched) :
            (ContainsTarget(fetched[k], TargetName)
             /\ \A j \in 1..(k - 1) : ~ContainsTarget(fetched[j], TargetName))
                => target_task = fetched[k]

\* Target "login": the store returned "Fix logout bug" before "Implement
\* login" and the latter was selected.
FirstMatchWitness ==
    /\ Searched
    /\ TargetName = S_login
    /\ Len(fetched) = 2
    /\ fetched[1].content = JStr(S_fix_logout_bug)
    /\ target_task = fetched[2]
    /\ target_task.content = JStr(S_implement_login)

\* C6: when no task the store returned contains the target name, modify_task
\* returns success false with a message naming the (lower-cased) search
\* string, and the command answers with a response carrying success false.
NotFoundReported ==
    (Searched /\ \A k \in 1..Len(fetched) : ~ContainsTarget(fetched[k], TargetName)) =>
        /\ pc \in {"summarize", "done"}
        /\ target_task = None
        /\ result = [success |-> FALSE,
                     message |-> [kind |-> "not_found", target |-> Lower(TargetName)]]
        /\ pending.kind = "response"
        /\ pending.success = FALSE
        /\ pending.result = result
        /\ pc = "done" => response.kind = "response" /\ response.success = FALSE

\* Target "zzz" among two tasks: the command answered success false.
NotFoundWitness ==
    /\ Searched
    /\ TargetName = S_zzz
    /\ Len(fetched) = 2
    /\ pc = "done"
    /\ response.kind = "response"
    /\ response.success = FALSE

\* C7: with a configured backend modify_task returns a result with a
\* boolean success flag on every path, and the command never ends in an
\* error.
ModifyNeverRaises ==
    (enabled /\ branch = "modify_task" /\ Truthy(request.project_id)) =>
        /\ pc \in {"summarize", "done"} =>
              /\ "success" \in DOMAIN result
              /\ result.success \in BOOLEAN
        /\ pc = "done" => response.kind = "response" /\ response.success = result.success

\* The store failed on the update or the delete of the target and the
\* command ended with modify_task's error result.
ModifyNeverRaisesWitness ==
    /\ enabled
    /\ branch = "modify_task"
    /\ pc = "done"
    /\ calls.failed = 1
    /\ calls.writes = 1
    /\ result = ErrorResult


(***************************************************************************)
(* Properties of the extraction steps.                                     *)
(***************************************************************************)
\* What the seven generators return for the backend text when each
\* recovers value from it.
AllRecover(value) ==
    /\ extracted.project_plan = value
    /\ extracted.breakdown = value
    /\ extracted.estimates = value
    /\ extracted.health_summary = value
    /\ extracted.prioritization = value
    /\ extracted.modification = value
    /\ extracted.task_list = GenValue(value)

\* Objects whose strings hold no fence and no brace.
PlainObjects ==
    {JObj(K_name :> JStr(S_login)),
     PlanOf(1, 1, 1),
     Modification(JStr(S_update), JStr(S_login), JObj(K_status :> JStr(S_done))),
     TaskListOf(<<Draft(1)>>)}

\* C8 as stated: every generator recovers an object from a fenced block
\* inside prose and from unfenced text with prose before and after it.
ExtractionRecovers ==
    (pc = "extracted" /\ sample.style \in {"fenced", "prosed"}
     /\ sample.value \in PlainObjects)
        => AllRecover(sample.value)

\* C9 as stated: on the serialization of an object or an array, with no
\* fence and no prose around it, the extraction of the plan generator and
\* of the generators that only strip fences yields the value.
CleanRoundTrip ==
    (pc = "extracted" /\ sample.style = "clean" /\ sample.value.t \in {"obj", "arr"}) =>
        /\ extracted.project_plan = sample.value
        /\ extracted.breakdown = sample.value
        /\ extracted.estimates = sample.value
        /\ extracted.health_summary = sample.value
        /\ extracted.prioritization = sample.value
        /\ extracted.modification = sample.value

\* The text generate_task_list hands to json.loads does not parse.
Unparsable(text) == JsonLoads(StripFences(text)) = JsonError

\* C10 as stated: for backend text that cannot be parsed, generate_task_list
\* returns the question equal to the original text when that text has fewer
\* than 500 characters, and fails when it has 500 or more.
ShortTextBecomesQuestion ==
    (pc = "extracted" /\ Unparsable(sample.text)) =>
        IF Len(sample.text) < QuestionLimit
        THEN extracted.task_list = GenQuestion(sample.text)
        ELSE extracted.task_list = GenFailure

(***************************************************************************)
(* Properties of the failure paths.                                        *)
(***************************************************************************)
\* The command called generate_project_plan: blocks 1 and the default, and
\* block 2 without a project id.
PlanGeneratorRan ==
    /\ reply # Unset
    /\ \/ branch \in {"create_project", "generate_plan"}
       \/ branch = "create_tasks" /\ NoProjectId(request)

\* The backend call of generate_project_plan failed, or its text holds no
\* JSON the extraction can load.
PlanGenerationFailed ==
    /\ PlanGeneratorRan
    /\ \/ reply = BackendFailure
       \/ reply.kind = "text" /\ ExtractPlan(reply.text) = JsonError

\* C11: when the backend call of the plan generator fails or its text cannot
\* be extracted, the command has issued exactly one backend call, has ended
\* with an error, and the store holds no project, sprint or task it did not
\* hold before: no store write was issued.
PlanFailureIsFinal ==
    PlanGenerationFailed =>
        /\ calls.backend = 1
        /\ pc = "done"
        /\ response = HttpError(500)
        /\ calls.writes = 0
        /\ projects = InitialProjects
        /\ sprints = <<>>
        /\ tasks \in InitialTaskTables

\* The backend answered the plan generator with prose that holds no JSON,
\* and the command ended.
PlanFailureIsFinalWitness ==
    /\ PlanGenerationFailed
    /\ reply.kind = "text"
    /\ branch = "create_project"
    /\ pc = "done"

\* C12: the step out of the summary turns the response under construction
\* into the response returned with nothing but the message filled in, and
\* the message is the summary or the fixed apology: whether the summarizer's
\* backend call fails, and whether the log file write then fails, the
\* success flag, the action and the result are those of the action, and no
\* error is raised.
SummaryFailureKeepsOutcome ==
    [][(pc = "summarize" /\ pending.kind = "response") =>
          /\ response'.kind = "response"
          /\ response'.message \in {Summary, Apology}
          /\ response' = [pending EXCEPT !.message = response'.message]]_vars

\* A modification that the store refused was summarized with the apology:
\* the response carries modify_task's failure flag and result.
SummaryFailureKeepsOutcomeWitness ==
    /\ pc = "done"
    /\ branch = "modify_task"
    /\ response.kind = "response"
    /\ response.message = Apology
    /\ response.success = FALSE
    /\ response.result = result
    /\ calls.failed = 1

\* C13: while the generative backend is not configured, no backend call and
\* no store write is issued, and a command that has ended has ended with an
\* error or with a response whose success flag is false.
NotConfiguredFailsFast ==
    ~enabled =>
        /\ calls.backend = 0
        /\ calls.writes = 0
        /\ pc = "done" =>
              \/ response.kind = "error"
              \/ response.kind = "response" /\ ~response.success

(***************************************************************************)
(* Properties of execute_plan and create_project.                          *)
(***************************************************************************)
\* Plans of the inputs in which fields are absent and every field present
\* has the type the plan prompt asks for.
PlansWithAbsentFields == {PlanWithoutName, PlanWithNameOnly}

\* C14: a command that ran execute_plan on a plan with absent fields and in
\* which no store call failed has ended with a successful response.
AbsentFieldsAreDefaulted ==
    (RunsExecutePlan /\ plan \in PlansWithAbsentFields /\ pc = "done" /\ calls.failed = 0)
        => response.kind = "response" /\ response.success

(***************************************************************************)
(* create_project alone, run twice on the same project_data: the second    *)
(* run starts in the second of the first or later.                         *)
(***************************************************************************)
\* The period of the key's suffix: int(time.time()) % 10000.
KeyPeriod == 10000

\* Seconds between the two runs: none, one, and around the period.
Delays == {0, 1, 2, KeyPeriod - 1, KeyPeriod, KeyPeriod + 1}

\* int(time.time()) at the first run.
StartTimes == {12345, 19999, 20000}

ProjectNames == {S_app, S_web, S_hello}

\* One run of AgentTools.create_project: the key is computed, the row is
\* added and committed unless the store refuses it.
CreateProjectAgain ==
    /\ pc \in {"first create_project", "second create_project"}
    /\ \E delay \in IF pc = "first create_project" THEN {0} ELSE Delays :
       \E row \in {NewProject(Uuid(nextId), sample.project_data, sample.now + delay)} :
          /\ sample' = [sample EXCEPT !.now = sample.now + delay]
          /\ extracted' = Append(extracted, row.key)
          /\ IF ProjectAccepted(row, projects)
             THEN /\ projects' = Append(projects, row)
                  /\ nextId' = nextId + 1
                  /\ StoreWritten
             ELSE StoreFailed /\ UNCHANGED <<projects, nextId>>
          /\ pc' = IF pc = "first create_project" THEN "second create_project" ELSE "done"
    /\ UNCHANGED <<enabled, request, branch, sprints, tasks, reply, localVars, response>>

\* The store holds the two projects of earlier commands, or none.
InitKeys ==
    /\ pc = "first create_project"
    /\ enabled = TRUE
    /\ request = [prompt |-> S_hello, project_id |-> None, has_tasks |-> FALSE]
    /\ branch = "none"
    /\ projects \in {<<>>, InitialProjects}
    /\ sprints = <<>>
    /\ tasks = <<>>
    /\ nextId = 1
    /\ calls = NoCalls
    /\ reply = Unset
    /\ plan = None
    /\ execution = Unset
    /\ task_list = Unset
    /\ created_tasks = <<>>
    /\ task = None
    /\ cursor = [i |-> 0, j |-> 0]
    /\ fetched = <<>>
    /\ target_task = None
    /\ result = Unset
    /\ pending = Unset
    /\ response = Unset
    /\ sample \in [project_data : [name : {JStr(n) : n \in ProjectNames},
                                    description : {None},
                                    category : {JStr(S_ai_generated)}],
                    now : StartTimes]
    /\ extracted = <<>>

SpecKeys == InitKeys /\ [][CreateProjectAgain]_vars

\* C15: two runs of create_project with the same project name have
\* computed different keys, whatever the time between them.
KeysNeverCollide == pc = "done" => extracted[1] # extracted[2]

(***************************************************************************)
(* Properties of the health check.                                         *)
(***************************************************************************)
\* {"status": "empty", "completion_rate": 0}
EmptySnapshot == JObj(K_status :> JStr(S_empty) @@ K_completion_rate :> JNum(0))

\* C16: a health command on a project without tasks, in which the store
\* read did not fail, has ended with a successful response whose result is
\* the empty snapshot.
EmptyProjectHealth ==
    (/\ branch = "project_health"
     /\ pc = "done"
     /\ calls.reads = 1
     /\ calls.failed = 0
     /\ RowsOfProject(tasks, request.project_id) = <<>>)
        => /\ response.kind = "response"
           /\ response.success
           /\ response.result = EmptySnapshot

(***************************************************************************)
(* The health command alone, on projects of up to MaxDone + MaxOpen tasks  *)
(* and on projects whose tasks are assigned.                               *)
(***************************************************************************)
S_ann == <<"a", "n", "n">>

\* n tasks of project P1 with this status and assignee.
HealthRows(n, status, assignee, prefix) ==
    [i \in 1..n |->
        [TaskRow(<<prefix>> \o NatChars(i), S_hello, None, S_P1)
            EXCEPT !.status = JStr(status), !.assignee = assignee]]

\* Unassigned tasks: done ones and open ones.
CompletionTables ==
    {<<OtherProjectTask>> \o HealthRows(d, S_done, None, "d")
                          \o HealthRows(o, S_todo, None, "o") :
        d \in 0..MaxDone, o \in 0..MaxOpen}

\* Open tasks of sam and of ann, and done tasks of sam.
WorkloadTables ==
    {<<OtherProjectTask>> \o HealthRows(s, S_todo, JStr(S_sam), "s")
                          \o HealthRows(a, S_inprogress, JStr(S_ann), "a")
                          \o HealthRows(k, S_done, JStr(S_sam), "k") :
        s \in 0..MaxAssigned, a \in 0..MaxAssigned, k \in {0, MaxAssigned}}

InitHealth ==
    /\ InitHandler
    /\ enabled = TRUE
    /\ tasks \in CompletionTables \cup WorkloadTables
    /\ request = [prompt |-> S_project_health, project_id |-> JStr(S_P1), has_tasks |-> FALSE]

NextHealth ==
    \/ Route
    \/ GetProjectHealth
    \/ Summarize

SpecHealth == InitHealth /\ [][NextHealth]_vars

\* The tasks of the project whose health was checked.
HealthRowsRead == RowsOfProject(tasks, request.project_id)

\* get_project_health returned a snapshot of a non-empty task set.
HealthTaken == branch = "project_health" /\ result # Unset

\* C17: the completion_rate of every snapshot of a non-empty task set is
\* floor(100 * completed / total), a whole number from 0 to 100.
CompletionRateIsFloor ==
    HealthTaken =>
        LET total == Len(HealthRowsRead)
            completed == CountStatus(HealthRowsRead, S_done)
            rate == Get(result, K_completion_rate, None)
        IN /\ rate = JNum((100 * completed) \div total)
           /\ rate.n \in 0..100

\* The assignees of the rows, and the open tasks of each.
Assignees(rows) == {rows[i].assignee : i \in 1..Len(rows)} \ {None}
OpenCount(rows, a) ==
    Cardinality({i \in 1..Len(rows) : rows[i].assignee = a /\ rows[i].status # JStr(S_done)})

\* The assignees with more than five tasks that are not done.
OverloadedSet(rows) == {a \in Assignees(rows) : OpenCount(rows, a) > 5}

\* C18: overloaded_members of every snapshot of a non-empty task set lists,
\* each once, the assignees with more than five tasks whose status is not
\* "Done", and burnout_risk is "High" when there is such an assignee and
\* "Low" when there is none.
OverloadedMembersExact ==
    HealthTaken =>
        LET members == Get(result, K_overloaded_members, None).a
            expected == OverloadedSet(HealthRowsRead)
        IN /\ {members[i] : i \in 1..Len(members)} = expected
           /\ Len(members) = Cardinality(expected)
           /\ Get(result, K_burnout_risk, None) =
                 JStr(IF expected # {} THEN S_High ELSE S_Low)

\* sam has six open tasks and ann exactly five: the snapshot names sam
\* alone and the risk is high.
OverloadedMembersExactWitness ==
    /\ HealthTaken
    /\ pc = "done"
    /\ OpenCount(HealthRowsRead, JStr(S_sam)) = 6
    /\ OpenCount(HealthRowsRead, JStr(S_ann)) = 5
    /\ Get(result, K_overloaded_members, None) = JArr(<<JStr(S_sam)>>)
    /\ Get(result, K_burnout_risk, None) = JStr(S_High)

(***************************************************************************)
(* Properties of task creation and modification.                           *)
(***************************************************************************)
\* The rows the command added to table tasks that have no parent: the
\* command's primary keys are fresh uuids, the rows before it hold others.
TopLevelCreated ==
    SelectSeq(tasks, LAMBDA row : Head(row.id.s) = "u" /\ row.parent_id = None)

\* The single task-creation block ran to its response on a parsed task list
\* that holds drafts.
SingleTaskCreated ==
    /\ branch = "create_task"
    /\ pc = "done"
    /\ response.kind = "response"
    /\ task_list # Unset
    /\ task_list.kind = "value"
    /\ K_tasks \in DOMAIN task_list.value.o

\* The drafts of the parsed task list.
DraftsGiven == DraftItems(TaskListDict(task_list))

\* The value of a JSON array holds this string.
HasTag(tags, tag) == \E i \in 1..Len(tags.a) : tags.a[i] = JStr(tag)

\* C19: a single task-creation command that answered on a task list of n
\* drafts answered with action "create_task", and the top-level tasks it
\* created are n, all of the project of the context, the i-th with the name
\* of the i-th draft as its content, that draft's assignee and the tag
\* "ai-generated".
SingleTaskPerDraft ==
    SingleTaskCreated =>
        /\ response.action = "create_task"
        /\ Len(TopLevelCreated) = Len(DraftsGiven)
        /\ \A i \in 1..Len(DraftsGiven) :
              i <= Len(TopLevelCreated) =>
                 /\ TopLevelCreated[i].project_id = request.project_id
                 /\ TopLevelCreated[i].content = Get(DraftsGiven[i], K_name, None)
                 /\ TopLevelCreated[i].assignee = Get(DraftsGiven[i], K_assignee, None)
                 /\ HasTag(TopLevelCreated[i].tags, S_ai_generated)

\* modify_task returned its success result.
ModificationSucceeded ==
    /\ branch = "modify_task"
    /\ pc \in {"summarize", "done"}
    /\ "success" \in DOMAIN result
    /\ result.success

\* The column of a task row that an updates key names.
Field(row, key) ==
    CASE key = K_id -> row.id
      [] key = K_content -> row.content
      [] key = K_description -> row.description
      [] key = K_status -> row.status
      [] key = K_priority -> row.priority
      [] key = K_assignee -> row.assignee
      [] key = K_estimated_hours -> row.estimated_hours
      [] key = K_project_id -> row.project_id

\* The rows of the table without the row of this primary key.
RowsBut(table, id) == {table[i] : i \in {j \in 1..Len(table) : table[j].id # id}}

\* Every task but the matched one is in the store as it was before the
\* command, and the store holds no further task.
OthersUnchanged(id) ==
    \E table \in InitialTaskTables :
        /\ \E i \in 1..Len(table) : table[i] = target_task
        /\ RowsBut(tasks, id) = RowsBut(table, target_task.id)

\* C20: after a successful modification the response action is the
\* interpreted one; for "update" the matched task is stored with the new
\* value of every field named in updates and the result task shows the
\* stored row, for "delete" the matched task is not in the store; every
\* other task is unchanged.
OnlyMatchedTaskAffected ==
    ModificationSucceeded =>
        LET updates == Get(plan, K_updates, JObj(<<>>))
        IN /\ pending.action = result.action
           /\ pc = "done" => response.action = result.action
           /\ result.action \in {"update", "delete"}
           /\ result.action = "update" =>
                 /\ Get(plan, K_action, None) = JStr(S_update)
                 /\ Len(SelectSeq(tasks, LAMBDA row : row = result.task)) = 1
                 /\ \A key \in DOMAIN updates.o : Field(result.task, key) = updates.o[key]
                 /\ \A key \in {K_content, K_description, K_status, K_priority, K_assignee} :
                       key \notin DOMAIN updates.o
                           => Field(result.task, key) = Field(target_task, key)
                 /\ OthersUnchanged(result.task.id)
           /\ result.action = "delete" =>
                 /\ Get(plan, K_action, None) = JStr(S_delete)
                 /\ ~Holds(tasks, target_task.id)
                 /\ OthersUnchanged(target_task.id)

\* "Implement login" was given the priority low and the assignee sam while
\* the other task of the project stayed as it was; the response shows both
\* new values.
OnlyMatchedTaskAffectedWitness ==
    /\ ModificationSucceeded
    /\ pc = "done"
    /\ response.action = "update"
    /\ response.result.task.content = JStr(S_implement_login)
    /\ response.result.task.priority = JStr(S_low)
    /\ response.result.task.assignee = JStr(S_sam)
    /\ \E i \in 1..Len(tasks) : tasks[i] = response.result.task
    /\ \E i \in 1..Len(tasks) : tasks[i] = TaskRow(S_t2, S_fix_logout_bug, None, S_P1)

\* "Fix logout bug" was deleted: the store holds the other tasks alone.
TaskDeletedWitness ==
    /\ ModificationSucceeded
    /\ pc = "done"
    /\ response.action = "delete"
    /\ target_task.content = JStr(S_fix_logout_bug)
    /\ tasks = <<OtherProjectTask, TaskRow(S_t1, S_implement_login, None, S_P1)>>

(***************************************************************************)
(* Properties of the created sub-tasks and of the responses.               *)
(***************************************************************************)
\* C21: every task in the store that was created from a sub-task name (it
\* carries the tag "subtask") references a stored task as its parent, and
\* that parent is a task created for a draft, of the same project.
SubTasksHaveParent ==
    \A i \in 1..Len(tasks) :
        HasTag(tasks[i].tags, S_subtask) =>
            \E j \in 1..Len(tasks) :
                /\ tasks[i].parent_id = tasks[j].id
                /\ tasks[i].project_id = tasks[j].project_id
                /\ ~HasTag(tasks[j].tags, S_subtask)

\* The capabilities, "clarification_needed" and modify_task's two actions.
ResponseActions ==
    {"create_project", "create_tasks", "modify_task", "project_health", "breakdown_task",
     "generate_estimates", "prioritize_backlog", "clarification_needed", "update", "delete"}

\* C22: the action of every response the handler returned is a capability,
\* "clarification_needed", "update" or "delete".
ActionInClosedSet ==
    (pc = "done" /\ response.kind = "response") => response.action \in ResponseActions

(***************************************************************************)
(* The command when every backend call and every store call returns or     *)
(* fails: the handler takes its next step as long as it has one.           *)
(***************************************************************************)
FairSpec == Spec /\ WF_vars(Next)

\* The handler returns or raises in the end.
CommandEnds == <>(pc = "done")

\* C23: a command that has ended has produced a unified response or an
\* error, the bulk task-creation command on an empty task list included.
EndsWithResponseOrError ==
    pc = "done" => response.kind \in {"response", "error"}

\* The rows the command added for drafts: those without the tag "subtask".
DraftTasksCreated ==
    SelectSeq(tasks, LAMBDA row : Head(row.id.s) = "u" /\ ~HasTag(row.tags, S_subtask))

\* The bulk task-creation block answered, without a failed store call, on
\* a parsed task list that holds at least one draft.
BulkTasksCreated ==
    /\ branch = "create_tasks"
    /\ ~NoProjectId(request)
    /\ pc = "done"
    /\ response.kind = "response"
    /\ calls.failed = 0
    /\ task_list # Unset
    /\ task_list.kind = "value"
    /\ K_tasks \in DOMAIN task_list.value.o
    /\ Len(DraftsGiven) >= 1

\* C24: a bulk task-creation command that answered on a task list of n
\* drafts created one task per draft, returns the n tasks in result.tasks
\* and reports tasks_created = n.
BulkTaskPerDraft ==
    BulkTasksCreated =>
        /\ Len(DraftTasksCreated) = Len(DraftsGiven)
        /\ Len(response.result.tasks) = Len(DraftsGiven)
        /\ response.execution_details.tasks_created = Len(DraftsGiven)

\* generate_task_list returned a clarification question to a command that
\* has ended.
QuestionReturned ==
    /\ branch \in {"create_tasks", "create_task"}
    /\ pc = "done"
    /\ task_list # Unset
    /\ Truthy(Get(TaskListDict(task_list), K_question, None))

\* C25: a task-creation command, bulk or single, whose task-list generator
\* returned a clarification question answers with action
\* "clarification_needed" and the question as its message, and has
\* created no task.
QuestionIsAsked ==
    QuestionReturned =>
        /\ response.kind = "response"
        /\ response.action = "clarification_needed"
        /\ response.message = Get(TaskListDict(task_list), K_question, None)
        /\ calls.writes = 0
        /\ tasks \in InitialTaskTables

(***************************************************************************)
(* Properties of modify_task's effect on the store.                        *)
(***************************************************************************)
\* modify_task returned, without a failed store call, on an intent whose
\* target_task_name is absent or the empty string.
EmptyTargetResolved ==
    /\ branch = "modify_task"
    /\ pc \in {"summarize", "done"}
    /\ result # Unset
    /\ calls.failed = 0
    /\ IsDict(plan)
    /\ Get(plan, K_target_task_name, JStr(<<>>)) = JStr(<<>>)

\* C26: on an intent without a target name modify_task returns its
\* not-found result and the store is as it was.
EmptyTargetMatchesNothing ==
    EmptyTargetResolved =>
        /\ result = NotFoundResult(<<>>)
        /\ calls.writes = 0
        /\ tasks \in InitialTaskTables

\* C27: after an update by modify_task the matched task is stored under
\* the id it had and in the project of the command, whatever keys the
\* updates hold.
UpdateKeepsIdentity ==
    (ModificationSucceeded /\ result.action = "update") =>
        /\ result.task.id = target_task.id
        /\ result.task.project_id = request.project_id
        /\ \E i \in 1..Len(tasks) :
              /\ tasks[i].id = target_task.id
              /\ tasks[i].project_id = request.project_id

(***************************************************************************)
(* Two modification commands on the same project at once. Each handler     *)
(* runs on its own task of the event loop and every await is a point at    *)
(* which the other may run; the store is shared, and every variable of a   *)
(* handler holds one value per command. Both handlers have entered block 3 *)
(* with a project id.                                                      *)
(***************************************************************************)
Modifiers == {1, 2}

\* What the backend makes of the two requests.
ConcurrentIntents ==
    {Modification(JStr(S_delete), JStr(S_login), JObj(<<>>)),
     Modification(JStr(S_delete), JStr(S_logout), JObj(<<>>)),
     Modification(JStr(S_update), JStr(S_login), JObj(K_status :> JStr(S_done)))}

ConcurrentReplies ==
    {BackendFailure} \cup {BackendText(Clean(Dumps(v))) : v \in ConcurrentIntents}

\* Command p issued a backend call, a store read, a store write, or a
\* store call of it failed.
CalledBy(p, kind) == calls' = [calls EXCEPT ![p][kind] = @ + 1]

\* modify_task of command p returns res; its handler goes on to summarize.
ConcurrentReturn(p, res) ==
    /\ result' = [result EXCEPT ![p] = res]
    /\ pending' = [pending EXCEPT ![p] = ModifyResponse(res)]
    /\ pc' = [pc EXCEPT ![p] = "summarize"]

\* modify_task of command p: the backend call and json.loads.
ConcurrentInterpret(p) ==
    /\ pc[p] = "modify_task"
    /\ \E r \in ConcurrentReplies :
          /\ CalledBy(p, "backend")
          /\ reply' = [reply EXCEPT ![p] = r]
          /\ IF r = BackendFailure
             THEN ConcurrentReturn(p, ErrorResult) /\ UNCHANGED plan
             ELSE \E modification_plan \in {ExtractModification(r.text)} :
                     IF modification_plan = JsonError
                     THEN ConcurrentReturn(p, ErrorResult) /\ UNCHANGED plan
                     ELSE /\ plan' = [plan EXCEPT ![p] = modification_plan]
                          /\ pc' = [pc EXCEPT ![p] = "get_tasks_by_project"]
                          /\ UNCHANGED <<result, pending>>
    /\ UNCHANGED <<enabled, request, branch, storeVars, execution, task_list, created_tasks, task,
                   cursor, fetched, target_task, response, extractVars>>

\* modify_task of command p: get_tasks_by_project and the search.
ConcurrentFind(p) ==
    /\ pc[p] = "get_tasks_by_project"
    /\ \/ /\ CalledBy(p, "failed")
          /\ ConcurrentReturn(p, ErrorResult)
          /\ UNCHANGED <<fetched, target_task>>
       \/ /\ CalledBy(p, "reads")
          /\ \E list \in Orders(RowsOfProject(tasks, request.project_id)) :
             \E target_name \in {Lower(Get(plan[p], K_target_task_name, JStr(<<>>)).s)} :
             \E found \in {FirstMatch(list, target_name)} :
                /\ fetched' = [fetched EXCEPT ![p] = list]
                /\ IF found = 0
                   THEN /\ ConcurrentReturn(p, NotFoundResult(target_name))
                        /\ UNCHANGED target_task
                   ELSE /\ target_task' = [target_task EXCEPT ![p] = list[found]]
                        /\ pc' = [pc EXCEPT ![p] =
                                     IF Get(plan[p], K_action, None) = JStr(S_update)
                                     THEN "update_task" ELSE "delete_task"]
                        /\ UNCHANGED <<result, pending>>
    /\ UNCHANGED <<enabled, request, branch, storeVars, reply, plan, execution, task_list,
                   created_tasks, task, cursor, response, extractVars>>

\* modify_task of command p: update_task raises ValueError when the task
\* is no longer in the store.
ConcurrentUpdate(p) ==
    /\ pc[p] = "update_task"
    /\ \E idx \in {RowIndex(tasks, target_task[p].id)} :
          \/ /\ CalledBy(p, "failed")
             /\ ConcurrentReturn(p, ErrorResult)
             /\ UNCHANGED tasks
          \/ IF idx = 0
             THEN /\ CalledBy(p, "reads")
                  /\ ConcurrentReturn(p, ErrorResult)
                  /\ UNCHANGED tasks
             ELSE \E row \in {ApplyUpdates(tasks[idx], Get(plan[p], K_updates, JObj(<<>>)))} :
                     /\ CalledBy(p, "writes")
                     /\ tasks' = [tasks EXCEPT ![idx] = row]
                     /\ ConcurrentReturn(p, [success |-> TRUE, action |-> "update",
                                             task |-> row,
                                             message |-> [kind |-> "updated",
                                                          content |-> row.content]])
    /\ UNCHANGED <<enabled, request, branch, projects, sprints, nextId, reply, plan, execution,
                   task_list, created_tasks, task, cursor, fetched, target_task, response,
                   extractVars>>

\* modify_task of command p: delete_task returns False when the task is no
\* longer in the store, and True after it removed it; modify_task reports
\* the deletion either way.
ConcurrentDelete(p) ==
    /\ pc[p] = "delete_task"
    /\ \E idx \in {RowIndex(tasks, target_task[p].id)} :
          \/ /\ CalledBy(p, "failed")
             /\ ConcurrentReturn(p, ErrorResult)
             /\ UNCHANGED tasks
          \/ /\ IF idx = 0
                THEN CalledBy(p, "reads") /\ UNCHANGED tasks
                ELSE CalledBy(p, "writes") /\ tasks' = RemoveAt(tasks, idx)
             /\ ConcurrentReturn(p, [success |-> TRUE, action |-> "delete",
                                     task |-> target_task[p],
                                     message |-> [kind |-> "deleted",
                                                  content |-> target_task[p].content]])
    /\ UNCHANGED <<enabled, request, branch, projects, sprints, nextId, reply, plan, execution,
                   task_list, created_tasks, task, cursor, fetched, target_task, response,
                   extractVars>>

\* The handler of command p summarizes and returns.
ConcurrentSummarize(p) ==
    /\ pc[p] = "summarize"
    /\ \E r \in SummarizerOutcomes :
          /\ CalledBy(p, "backend")
          /\ response' = [response EXCEPT ![p] =
                             [pending[p] EXCEPT !.message = NaturalLanguageResponse(r)]]
          /\ pc' = [pc EXCEPT ![p] = "done"]
    /\ UNCHANGED <<enabled, request, branch, storeVars, reply, localVars, extractVars>>

InitModifiers ==
    /\ enabled = TRUE
    /\ request = [prompt |-> S_update_task, project_id |-> JStr(S_P1), has_tasks |-> FALSE]
    /\ branch = "modify_task"
    /\ pc = [p \in Modifiers |-> "modify_task"]
    /\ projects = InitialProjects
    /\ sprints = <<>>
    /\ tasks \in InitialTaskTables
    /\ nextId = 1
    /\ calls = [p \in Modifiers |-> NoCalls]
    /\ reply = [p \in Modifiers |-> Unset]
    /\ plan = [p \in Modifiers |-> None]
    /\ execution = Unset
    /\ task_list = Unset
    /\ created_tasks = <<>>
    /\ task = None
    /\ cursor = [i |-> 0, j |-> 0]
    /\ fetched = [p \in Modifiers |-> <<>>]
    /\ target_task = [p \in Modifiers |-> None]
    /\ result = [p \in Modifiers |-> Unset]
    /\ pending = [p \in Modifiers |-> Unset]
    /\ response = [p \in Modifiers |-> Unset]
    /\ sample = Unset
    /\ extracted = Unset

NextModifiers ==
    \E p \in Modifiers :
        \/ ConcurrentInterpret(p)
        \/ ConcurrentFind(p)
        \/ ConcurrentUpdate(p)
        \/ ConcurrentDelete(p)
        \/ ConcurrentSummarize(p)

SpecModifiers == InitModifiers /\ [][NextModifiers]_vars

\* modify_task of command p returned success for a deletion.
ReportsDelete(p) ==
    /\ "success" \in DOMAIN result[p]
    /\ result[p].success
    /\ result[p].action = "delete"

\* C28: a command whose modify_task reports a successful delete has itself
\* removed the task from the store, and no two commands report the
\* successful delete of the same task.
DeleteReportedByRemover ==
    /\ \A p \in Modifiers : ReportsDelete(p) => calls[p].writes = 1
    /\ \A p, q \in Modifiers :
          (p # q /\ ReportsDelete(p) /\ ReportsDelete(q))
              => result[p].task.id # result[q].task.id

(***************************************************************************)
(* The frame of modify_task.                                               *)
(***************************************************************************)
\* The search of modify_task found a task and the interpretation asks for
\* an update or a delete.
MatchedForChange ==
    /\ target_task # None
    /\ IsDict(plan)
    /\ Get(plan, K_action, None) \in {JStr(S_update), JStr(S_delete)}

\* modify_task has returned.
ModifyReturned ==
    /\ enabled
    /\ branch = "modify_task"
    /\ pc \in {"summarize", "done"}
    /\ result # Unset

\* A step of a modification command that changes the store is taken with a
\* matched task and the action update or delete.
StoreChangesOnlyWhenMatched ==
    (branch = "modify_task" /\ storeVars' # storeVars) => MatchedForChange

\* Every other outcome is a failure without a store call that writes.
OtherOutcomesFail ==
    (ModifyReturned /\ ~MatchedForChange) => (~result.success /\ calls.writes = 0)

\* C29: modify_task changes the store only when a task matched and the
\* action is "update" or "delete"; on no match, any other action, a backend
\* failure or an unparsable response it returns success false and leaves
\* every task as it was.
ModifyChangesOnlyOnMatch == []OtherOutcomesFail /\ [][StoreChangesOnlyWhenMatched]_vars

\* The action "archive" on a task that matched: the command ended with the
\* unknown-action result and no write.
ModifyChangesOnlyOnMatchWitness ==
    /\ ModifyReturned
    /\ pc = "done"
    /\ target_task # None
    /\ Get(plan, K_action, None) = JStr(S_archive)
    /\ result = UnknownActionResult
    /\ calls.writes = 0

(***************************************************************************)
(* The frame of the read-only capabilities.                                *)
(***************************************************************************)
ReadOnlyCapabilities ==
    {"project_health", "breakdown_task", "generate_estimates", "prioritize_backlog"}

\* A step of a command of these four leaves projects, sprints and tasks as
\* they are.
ReadOnlyStep == branch' \in ReadOnlyCapabilities => UNCHANGED storeVars

\* A command of these four issues no store call that writes.
ReadOnlyCalls == branch \in ReadOnlyCapabilities => calls.writes = 0

\* C30: a command dispatched to project health, task breakdown, estimation
\* or backlog prioritization creates, updates and deletes nothing in the
\* store, whether it succeeds or fails.
ReadOnlyLeavesStore == []ReadOnlyCalls /\ [][ReadOnlyStep]_vars

\* A health command that read the project's tasks and ended, and one of
\* the generators that ended in an error.
ReadOnlyLeavesStoreWitness ==
    /\ pc = "done"
    /\ \/ /\ branch = "project_health"
          /\ calls.reads = 1
          /\ response.kind = "response"
          /\ response.success
       \/ /\ branch = "prioritize_backlog"
          /\ calls.backend = 1
          /\ response = HttpError(500)

====
